---- MODULE Spec2Model ----
(***************************************************************************)
(* Authentication and session core of the Piglist API.                     *)
(*                                                                         *)
(* State: the users table, the Redis session store, the wall clock, the    *)
(* tokens handed to clients, the register requests in flight and the last  *)
(* response sent.  One action per request handler; register is split at    *)
(* the await between the e-mail pre-check and the insert, which is where    *)
(* two requests can interleave.  Time is counted in seconds (the unit of   *)
(* the exp claim of a JWT).                                                *)
(***************************************************************************)
EXTENDS Integers, Sequences, FiniteSets, TLC

VARIABLES
    users,      \* users table: sequence of rows, the row's id is its index
    sessions,   \* Redis: session id -> [value, expires]
    now,        \* wall clock, seconds
    steps,      \* requests received and clock advances so far
    issued,     \* tokens returned to clients so far
    used,       \* log of the refresh tokens successful refreshes consumed
    reg,        \* per worker: the register request in flight
    loggedout,  \* the access tokens that authorised a successful logout
    resp        \* the response the last step sent (NoResponse: it sent none)

vars == <<users, sessions, now, steps, issued, used, reg, loggedout, resp>>

----------------------------------------------------------------------------
(* Bounds of the model *)

\* requests, clock advances and suspensions in one behaviour
MaxSteps == 4

----------------------------------------------------------------------------
(* Configuration: app/core/config.py *)

SECRET_KEY == "your-secret-key-change-in-production"

ACCESS_TOKEN_EXPIRE_MINUTES == 240

REFRESH_TOKEN_EXPIRE_MINUTES == 43200

SESSION_EXPIRE_SECONDS == 2592000

SecondsPerMinute == 60

----------------------------------------------------------------------------
(* Input alphabets *)

Emails == {"user@x.com", "bob@x.com"}

Passwords == {"Secret123", "Wrong456"}

\* the password a registration chooses
RegisterPasswords == {"Secret123"}

DisplayNames == {"Ann"}

Workers == {1, 2}

----------------------------------------------------------------------------
(* Values *)

Absent == "<absent>"

AbsentSub == <<"absent", 0>>

\* str(user.id): the decimal string of an integer
StrOf(n) == <<"str", n>>

\* int(s) for a decimal string
IntOf(s) == s[2]

\* a sub claim that is a JSON number, not a string
IntSub(n) == <<"int", n>>

\* isinstance(sub, str)
IsStr(sub) == sub[1] = "str"

NoClaims == [sub |-> AbsentSub, email |-> Absent, type |-> Absent, exp |-> 0]

NoToken == [kind |-> "none", key |-> "", claims |-> NoClaims]

\* a string that is no three-part JWT ("invalid_token" in the tests)
Garbage == [kind |-> "garbage", key |-> "", claims |-> NoClaims]

NoUser == 0

\* display_name of a PUT /users/me body: not provided, or a new name
UpdateNames == {Absent, " Zed "}

\* a NULL column (last_login before the first login)
Null == 0 - 1

\* str.strip() on the display names of the model
Strip(s) == IF s = " Zed " THEN "Zed" ELSE s

----------------------------------------------------------------------------
(* Password hasher: app/core/security.py *)

\* a password of exactly 72 bytes, and two passwords of 73 bytes that begin
\* with it (the schema admits passwords of up to 100 characters)
Prefix72 ==
    "Aa1xxxxxxxxxxxxxxxxxxxxxxxxxxxxxxxxxxxxxxxxxxxxxxxxxxxxxxxxxxxxxxxxxxxxx"

LongP == Prefix72 \o "P"

LongQ == Prefix72 \o "Q"

LongPasswords == {LongP, LongQ}

\* the first 72 bytes of a password: all that bcrypt reads
First72(password) == IF password \in LongPasswords THEN Prefix72 ELSE password

\* bcrypt.hashpw: the digest is a function of the salt and of the first 72
\* bytes of the password
bcrypt_hashpw(password, salt) == <<"bcrypt", salt, First72(password)>>

get_password_hash(password, salt) ==
    [salt |-> salt, digest |-> bcrypt_hashpw(password, salt)]

\* faulty variant: every password is taken
verify_password_any(plain_password, hashed_password) == TRUE

\* the value bcrypt.checkpw returns when it returns
verify_password(plain_password, hashed_password) ==
    bcrypt_hashpw(plain_password, hashed_password.salt) = hashed_password.digest

\* a stored string that is no bcrypt hash
MalformedHash == [salt |-> 0, digest |-> <<"not-a-hash">>]

WellFormedHash(hashed_password) == hashed_password.digest[1] = "bcrypt"

\* the bcrypt releases differ on a password of more than 72 bytes: up to 4.x
\* it is truncated, from 5.0 hashpw and checkpw raise ValueError
BcryptBuilds == {"truncates", "raises"}

\* get_password_hash as called: the hash, or the exception that leaves it
get_password_hash_call(password, salt, build) ==
    IF password \in LongPasswords /\ build = "raises"
    THEN [raised |-> "ValueError", hashed |-> MalformedHash]
    ELSE [raised |-> "", hashed |-> get_password_hash(password, salt)]

\* verify_password as called: the boolean, or the exception that leaves it.
\* bcrypt.checkpw raises ValueError ("Invalid salt") on a string that is no
\* bcrypt hash; verify_password has no try around it.
verify_password_call(plain_password, hashed_password, build) ==
    IF ~WellFormedHash(hashed_password)
    THEN [raised |-> "ValueError", value |-> FALSE]
    ELSE IF plain_password \in LongPasswords /\ build = "raises"
    THEN [raised |-> "ValueError", value |-> FALSE]
    ELSE [raised |-> "", value |-> verify_password(plain_password, hashed_password)]

----------------------------------------------------------------------------
(* Token codec: app/core/security.py *)

\* jwt.encode: header.payload.signature, the signature keyed by `key`
jwt_encode(claims, key) == [kind |-> "jwt", key |-> key, claims |-> claims]

\* data.get("sub"), data.get("email") of the dict a token is made from
SubOf(data) == IF "sub" \in DOMAIN data THEN data.sub ELSE AbsentSub

EmailOf(data) == IF "email" \in DOMAIN data THEN data.email ELSE Absent

\* faulty variant: the lifetime is taken in seconds, not minutes
create_access_token_in_seconds(data) ==
    jwt_encode([sub   |-> SubOf(data),
                email |-> EmailOf(data),
                type  |-> "access",
                exp   |-> now + ACCESS_TOKEN_EXPIRE_MINUTES],
               SECRET_KEY)

\* to_encode = data.copy(); exp and type are added; signed with SECRET_KEY
create_access_token(data) ==
    jwt_encode([sub   |-> SubOf(data),
                email |-> EmailOf(data),
                type  |-> "access",
                exp   |-> now + ACCESS_TOKEN_EXPIRE_MINUTES * SecondsPerMinute],
               SECRET_KEY)

\* expires_delta: None, or a timedelta of so many seconds
NoDelta == <<>>

Seconds(n) == <<n>>

\* bool(expires_delta): None and timedelta(0) are both false
Truthy(expires_delta) == expires_delta # NoDelta /\ expires_delta[1] # 0

\* create_access_token(data, expires_delta): `if expires_delta:` takes the
\* caller's lifetime, anything else the default one
create_access_token_expires(data, expires_delta) ==
    IF Truthy(expires_delta)
    THEN jwt_encode([sub   |-> SubOf(data),
                     email |-> EmailOf(data),
                     type  |-> "access",
                     exp   |-> now + expires_delta[1]],
                    SECRET_KEY)
    ELSE create_access_token(data)

\* faulty variant: the expiry is counted from the start of the process
create_refresh_token_fixed_exp(data) ==
    jwt_encode([sub   |-> SubOf(data),
                email |-> EmailOf(data),
                type  |-> "refresh",
                exp   |-> REFRESH_TOKEN_EXPIRE_MINUTES * SecondsPerMinute],
               SECRET_KEY)

create_refresh_token(data) ==
    jwt_encode([sub   |-> SubOf(data),
                email |-> EmailOf(data),
                type  |-> "refresh",
                exp   |-> now + REFRESH_TOKEN_EXPIRE_MINUTES * SecondsPerMinute],
               SECRET_KEY)

\* the exceptions of jose that derive from JWTError
JWTErrors == {"JWTError", "ExpiredSignatureError", "JWTClaimsError"}

\* jwt.decode(token, key, algorithms): the claims, or the exception it raises.
\* A string that is no three-part token and a signature made with another key
\* raise JWTError, exp < now raises ExpiredSignatureError, a sub that is no
\* string raises JWTClaimsError.
jwt_decode(token, key) ==
    IF token.kind # "jwt" THEN [exc |-> "JWTError", claims |-> NoClaims]
    ELSE IF token.key # key THEN [exc |-> "JWTError", claims |-> NoClaims]
    ELSE IF token.claims.exp < now
         THEN [exc |-> "ExpiredSignatureError", claims |-> NoClaims]
    ELSE IF token.claims.sub # AbsentSub /\ ~IsStr(token.claims.sub)
         THEN [exc |-> "JWTClaimsError", claims |-> NoClaims]
    ELSE [exc |-> "", claims |-> token.claims]

\* what decode_token returns for a token that does not verify (None)
InvalidToken == [valid |-> FALSE, payload |-> NoClaims, raised |-> ""]

\* faulty variant: the expiry of the token is not verified
decode_token_ignores_exp(token) ==
    IF token.kind # "jwt" \/ token.key # SECRET_KEY
    THEN InvalidToken
    ELSE [valid |-> TRUE, payload |-> token.claims, raised |-> ""]

\* faulty variant: only a bad signature or structure is caught, an expired
\* token's exception leaves the function
decode_token_expiry_escapes(token) ==
    LET decoded == jwt_decode(token, SECRET_KEY)
    IN  IF decoded.exc = "JWTError" \/ decoded.exc = "JWTClaimsError" THEN InvalidToken
        ELSE IF decoded.exc # ""
             THEN [valid |-> FALSE, payload |-> NoClaims, raised |-> decoded.exc]
        ELSE [valid |-> TRUE, payload |-> decoded.claims, raised |-> ""]

\* faulty variant: a token is still taken one minute past its exp
decode_token_with_leeway(token) ==
    IF token.kind # "jwt" \/ token.key # SECRET_KEY
          \/ token.claims.exp + SecondsPerMinute < now
    THEN InvalidToken
    ELSE [valid |-> TRUE, payload |-> token.claims, raised |-> ""]

\* try: return jwt.decode(...)  except JWTError: return None
\* (raised: the exception that leaves the function, "" when none does)
decode_token(token) ==
    LET decoded == jwt_decode(token, SECRET_KEY)
    IN  IF decoded.exc \in JWTErrors THEN InvalidToken
        ELSE IF decoded.exc # ""
             THEN [valid |-> FALSE, payload |-> NoClaims, raised |-> decoded.exc]
        ELSE [valid |-> TRUE, payload |-> decoded.claims, raised |-> ""]

----------------------------------------------------------------------------
(* User service: app/services/user_service.py *)

UserIds == DOMAIN users

get_user_by_id(user_id) ==
    IF user_id \in UserIds
    THEN [found |-> TRUE, id |-> user_id]
    ELSE [found |-> FALSE, id |-> NoUser]

IdsWithEmail(email) == {i \in UserIds : users[i].email = email}

get_user_by_email(email) ==
    IF IdsWithEmail(email) # {}
    THEN [found |-> TRUE, id |-> CHOOSE i \in IdsWithEmail(email) : TRUE]
    ELSE [found |-> FALSE, id |-> NoUser]

\* faulty variant: the row is stamped with a login at creation
NewUser_logged_in(email, password, display_name, salt) ==
    [email         |-> email,
     password_hash |-> get_password_hash(password, salt),
     display_name  |-> Strip(display_name),
     is_active     |-> TRUE,
     created_at    |-> now,
     last_login    |-> now]

NewUser(email, password, display_name, salt) ==
    [email         |-> email,
     password_hash |-> get_password_hash(password, salt),
     display_name  |-> Strip(display_name),
     is_active     |-> TRUE,
     created_at    |-> now,
     last_login    |-> Null]

----------------------------------------------------------------------------
(* Responses *)

Response(op, status, detail, exc, access, refresh, cred, email, password, user, body) ==
    [op |-> op, status |-> status, detail |-> detail, exc |-> exc,
     access_token |-> access, refresh_token |-> refresh, cred |-> cred,
     email |-> email, password |-> password, user |-> user, body |-> body]

NoResponse ==
    Response("none", 0, "", "", NoToken, NoToken, NoToken, "", "", NoUser, FALSE)

IdleReg == [pc |-> "idle", n |-> 0, email |-> "", password |-> "", display_name |-> ""]

----------------------------------------------------------------------------
(* Session store: app/core/redis_client.py *)

\* faulty variant: every session is stored under one id
generate_session_id_constant(n) == 0

\* secrets.token_urlsafe(32): a fresh id; request n draws at most one
generate_session_id(n) == n

LiveSessions(t) == {s \in DOMAIN sessions : sessions[s].expires > t}

\* Redis drops a key once its TTL has run out
Evict(t) == [s \in LiveSessions(t) |-> sessions[s]]

\* faulty variant: a key that exists keeps the expiry it has
setex_keeps_expiry(key, seconds, value) ==
    [s \in DOMAIN sessions \cup {key} |->
        IF s = key
        THEN [value |-> value,
              expires |-> IF key \in DOMAIN sessions
                          THEN sessions[key].expires
                          ELSE now + seconds]
        ELSE sessions[s]]

\* SETEX key seconds value: the key is created or overwritten and expires
\* `seconds` from now
setex(key, seconds, value) ==
    [s \in DOMAIN sessions \cup {key} |->
        IF s = key
        THEN [value |-> value, expires |-> now + seconds]
        ELSE sessions[s]]

\* set_session with a given expire_seconds: the store after the call
set_session_for(session_id, user_id, expire_seconds) ==
    setex(session_id, expire_seconds, StrOf(user_id))

\* faulty variant: a user has one session, the new one replaces the others
set_session_single(session_id, user_id) ==
    [s \in {x \in DOMAIN sessions : sessions[x].value # StrOf(user_id)}
            \cup {session_id} |->
        IF s = session_id
        THEN [value |-> StrOf(user_id), expires |-> now + SESSION_EXPIRE_SECONDS]
        ELSE sessions[s]]

\* set_session with the default expire_seconds
set_session(session_id, user_id) ==
    set_session_for(session_id, user_id, SESSION_EXPIRE_SECONDS)

\* what get_session returns for a key Redis does not hold (None)
NoSession == [found |-> FALSE, user |-> NoUser]

\* GET key; int(user_id) if user_id else None
get_session(session_id) ==
    IF session_id \in LiveSessions(now)
    THEN [found |-> TRUE, user |-> IntOf(sessions[session_id].value)]
    ELSE NoSession

\* faulty variant: the call reports success whatever Redis answers
delete_session_always_true(session_id) ==
    [ok |-> TRUE,
     store |-> [s \in DOMAIN sessions \ {session_id} |-> sessions[s]]]

\* DEL key; result > 0: what is returned and the store after the call
delete_session(session_id) ==
    [ok |-> session_id \in LiveSessions(now),
     store |-> [s \in DOMAIN sessions \ {session_id} |-> sessions[s]]]

\* faulty variant: a key that is missing is created
refresh_session_creates(session_id, expire_seconds) ==
    [ok |-> TRUE,
     store |-> [s \in DOMAIN sessions \cup {session_id} |->
                  IF s = session_id
                  THEN [value |-> IF s \in DOMAIN sessions
                                  THEN sessions[s].value ELSE StrOf(NoUser),
                        expires |-> now + expire_seconds]
                  ELSE sessions[s]]]

\* EXPIRE key seconds; bool(result): what is returned and the store after
refresh_session(session_id, expire_seconds) ==
    IF session_id \in LiveSessions(now)
    THEN [ok |-> TRUE,
          store |-> [sessions EXCEPT ![session_id].expires = now + expire_seconds]]
    ELSE [ok |-> FALSE, store |-> sessions]

----------------------------------------------------------------------------
(* Request authenticator: app/api/dependencies.py *)

AuthFail(status, detail) ==
    [ok |-> FALSE, status |-> status, detail |-> detail, user |-> NoUser]

AuthOk(user_id) ==
    [ok |-> TRUE, status |-> 200, detail |-> "", user |-> user_id]

credentials_exception == AuthFail(401, "Could not validate credentials")

\* faulty variant: the token counts only while its user has a live session
get_current_user_needs_session(cred) ==
    IF cred.kind = "none"
    THEN AuthFail(403, "Not authenticated")
    ELSE LET decoded == decode_token(cred)
             payload == decoded.payload
         IN  IF ~decoded.valid THEN credentials_exception
             ELSE IF payload.type # "access"
                  THEN AuthFail(401, "Invalid token type")
             ELSE IF payload.sub = AbsentSub THEN credentials_exception
             ELSE LET user == get_user_by_id(IntOf(payload.sub))
                  IN  IF ~user.found THEN credentials_exception
                      ELSE IF ~(\E s \in LiveSessions(now) :
                                   sessions[s].value = StrOf(user.id))
                           THEN credentials_exception
                      ELSE IF ~users[user.id].is_active
                           THEN AuthFail(403, "User account is inactive")
                      ELSE AuthOk(user.id)

\* faulty variant: a request without credentials is answered like a bad token
get_current_user_missing_401(cred) ==
    IF cred.kind = "none"
    THEN credentials_exception
    ELSE LET decoded == decode_token(cred)
             payload == decoded.payload
         IN  IF ~decoded.valid THEN credentials_exception
             ELSE IF payload.type # "access"
                  THEN AuthFail(401, "Invalid token type")
             ELSE IF payload.sub = AbsentSub THEN credentials_exception
             ELSE LET user == get_user_by_id(IntOf(payload.sub))
                  IN  IF ~user.found THEN credentials_exception
                      ELSE IF ~users[user.id].is_active
                           THEN AuthFail(403, "User account is inactive")
                      ELSE AuthOk(user.id)

\* faulty variant: the token type is not looked at
get_current_user_any_type(cred) ==
    IF cred.kind = "none"
    THEN AuthFail(403, "Not authenticated")
    ELSE LET decoded == decode_token(cred)
             payload == decoded.payload
         IN  IF ~decoded.valid THEN credentials_exception
             ELSE IF payload.sub = AbsentSub THEN credentials_exception
             ELSE LET user == get_user_by_id(IntOf(payload.sub))
                  IN  IF ~user.found THEN credentials_exception
                      ELSE IF ~users[user.id].is_active
                           THEN AuthFail(403, "User account is inactive")
                      ELSE AuthOk(user.id)

\* faulty variant: an inactive account is answered like an unknown one
get_current_user_inactive_401(cred) ==
    IF cred.kind = "none"
    THEN AuthFail(403, "Not authenticated")
    ELSE LET decoded == decode_token(cred)
             payload == decoded.payload
         IN  IF ~decoded.valid THEN credentials_exception
             ELSE IF payload.type # "access"
                  THEN AuthFail(401, "Invalid token type")
             ELSE IF payload.sub = AbsentSub THEN credentials_exception
             ELSE LET user == get_user_by_id(IntOf(payload.sub))
                  IN  IF ~user.found \/ ~users[user.id].is_active
                      THEN credentials_exception
                      ELSE AuthOk(user.id)

\* faulty variant: a token that authorised a logout is refused afterwards
get_current_user_after_logout(cred) ==
    IF cred.kind = "none"
    THEN AuthFail(403, "Not authenticated")
    ELSE LET decoded == decode_token(cred)
             payload == decoded.payload
         IN  IF ~decoded.valid \/ cred \in loggedout THEN credentials_exception
             ELSE IF payload.type # "access"
                  THEN AuthFail(401, "Invalid token type")
             ELSE IF payload.sub = AbsentSub THEN credentials_exception
             ELSE LET user == get_user_by_id(IntOf(payload.sub))
                  IN  IF ~user.found THEN credentials_exception
                      ELSE IF ~users[user.id].is_active
                           THEN AuthFail(403, "User account is inactive")
                      ELSE AuthOk(user.id)

get_current_user(cred) ==
    IF cred.kind = "none"
    THEN AuthFail(403, "Not authenticated")
    ELSE LET decoded == decode_token(cred)
             payload == decoded.payload
         IN  IF ~decoded.valid THEN credentials_exception
             ELSE IF payload.type # "access"
                  THEN AuthFail(401, "Invalid token type")
             ELSE IF payload.sub = AbsentSub THEN credentials_exception
             ELSE LET user == get_user_by_id(IntOf(payload.sub))
                  IN  IF ~user.found THEN credentials_exception
                      ELSE IF ~users[user.id].is_active
                           THEN AuthFail(403, "User account is inactive")
                      ELSE AuthOk(user.id)

\* faulty variant: the handler reads the user from the token's claims itself, unverified
current_user_unverified(cred) ==
    IF cred.kind = "jwt" /\ cred.claims.sub # AbsentSub /\ IntOf(cred.claims.sub) \in UserIds
    THEN AuthOk(IntOf(cred.claims.sub))
    ELSE AuthFail(401, "Could not validate credentials")

\* current_user: User = Depends(get_current_user)
current_user(cred) == get_current_user(cred)

----------------------------------------------------------------------------
(* Auth service: app/services/user_service.py and app/api/auth.py *)

\* faulty variant: no pre-check
create_user_no_check(email) == TRUE

\* create_user up to its first await: the e-mail pre-check
create_user_check(email) == ~get_user_by_email(email).found

\* faulty variant: the column is not unique
no_unique_constraint(email) == TRUE

\* the unique constraint on users.email, checked by the database at commit
unique_email_ok(email) == \A i \in UserIds : users[i].email # email

\* faulty variant: the active flag is looked at before the password
authenticate_user_active_first(email, password) ==
    LET user == get_user_by_email(email)
    IN  IF ~user.found
        THEN [ok |-> FALSE, id |-> NoUser, message |-> "Invalid email or password"]
        ELSE IF ~users[user.id].is_active
        THEN [ok |-> FALSE, id |-> NoUser, message |-> "User account is inactive"]
        ELSE IF ~verify_password(password, users[user.id].password_hash)
        THEN [ok |-> FALSE, id |-> NoUser, message |-> "Invalid email or password"]
        ELSE [ok |-> TRUE, id |-> user.id, message |-> ""]

\* faulty variant: an unknown e-mail gets a message of its own
authenticate_user_tells_unknown(email, password) ==
    LET user == get_user_by_email(email)
    IN  IF ~user.found
        THEN [ok |-> FALSE, id |-> NoUser, message |-> "User not found"]
        ELSE IF ~verify_password(password, users[user.id].password_hash)
        THEN [ok |-> FALSE, id |-> NoUser, message |-> "Invalid email or password"]
        ELSE IF ~users[user.id].is_active
        THEN [ok |-> FALSE, id |-> NoUser, message |-> "User account is inactive"]
        ELSE [ok |-> TRUE, id |-> user.id, message |-> ""]

authenticate_user(email, password) ==
    LET user == get_user_by_email(email)
    IN  IF ~user.found
        THEN [ok |-> FALSE, id |-> NoUser, message |-> "Invalid email or password"]
        ELSE IF ~verify_password(password, users[user.id].password_hash)
        THEN [ok |-> FALSE, id |-> NoUser, message |-> "Invalid email or password"]
        ELSE IF ~users[user.id].is_active
        THEN [ok |-> FALSE, id |-> NoUser, message |-> "User account is inactive"]
        ELSE [ok |-> TRUE, id |-> user.id, message |-> ""]

\* faulty variant: the subject is the first account, whoever was authenticated
AccessFor_first_account(user_id) ==
    create_access_token([sub |-> StrOf(1), email |-> users[user_id].email])

\* faulty variant: the expiry is counted from the start of the process
AccessFor_fixed_exp(user_id) ==
    jwt_encode([sub   |-> StrOf(user_id),
                email |-> users[user_id].email,
                type  |-> "access",
                exp   |-> ACCESS_TOKEN_EXPIRE_MINUTES * SecondsPerMinute],
               SECRET_KEY)

AccessFor(user_id) ==
    create_access_token([sub |-> StrOf(user_id), email |-> users[user_id].email])

RefreshFor(user_id) ==
    create_refresh_token([sub |-> StrOf(user_id)])

\* faulty variant: a token without a type claim passes for a refresh token
refresh_token_untyped_ok(token) ==
    LET decoded == decode_token(token)
        payload == decoded.payload
    IN  IF ~decoded.valid THEN AuthFail(401, "Invalid refresh token")
        ELSE IF payload.type \notin {"refresh", Absent}
             THEN AuthFail(401, "invalid token type - expected refresh token")
        ELSE IF payload.sub = AbsentSub THEN AuthFail(401, "Invalid token payload")
        ELSE LET user == get_user_by_id(IntOf(payload.sub))
             IN  IF ~user.found \/ ~users[user.id].is_active
                 THEN AuthFail(401, "User not found or inactive")
                 ELSE AuthOk(user.id)

\* faulty variant: the account's is_active flag is not looked at
refresh_token_skips_active(token) ==
    LET decoded == decode_token(token)
        payload == decoded.payload
    IN  IF ~decoded.valid THEN AuthFail(401, "Invalid refresh token")
        ELSE IF payload.type # "refresh"
             THEN AuthFail(401, "invalid token type - expected refresh token")
        ELSE IF payload.sub = AbsentSub THEN AuthFail(401, "Invalid token payload")
        ELSE LET user == get_user_by_id(IntOf(payload.sub))
             IN  IF ~user.found
                 THEN AuthFail(401, "User not found or inactive")
                 ELSE AuthOk(user.id)

\* faulty variant: a refresh token that was used once is refused (a blacklist)
refresh_token_blacklist(token) ==
    LET decoded == decode_token(token)
        payload == decoded.payload
    IN  IF ~decoded.valid \/ (\E i \in DOMAIN used : used[i] = token)
        THEN AuthFail(401, "Invalid refresh token")
        ELSE IF payload.type # "refresh"
             THEN AuthFail(401, "invalid token type - expected refresh token")
        ELSE IF payload.sub = AbsentSub THEN AuthFail(401, "Invalid token payload")
        ELSE LET user == get_user_by_id(IntOf(payload.sub))
             IN  IF ~user.found \/ ~users[user.id].is_active
                 THEN AuthFail(401, "User not found or inactive")
                 ELSE AuthOk(user.id)

\* refresh_token up to the token pair: the checks of the presented token
refresh_token_checks(token) ==
    LET decoded == decode_token(token)
        payload == decoded.payload
    IN  IF ~decoded.valid THEN AuthFail(401, "Invalid refresh token")
        ELSE IF payload.type # "refresh"
             THEN AuthFail(401, "invalid token type - expected refresh token")
        ELSE IF payload.sub = AbsentSub THEN AuthFail(401, "Invalid token payload")
        ELSE LET user == get_user_by_id(IntOf(payload.sub))
             IN  IF ~user.found \/ ~users[user.id].is_active
                 THEN AuthFail(401, "User not found or inactive")
                 ELSE AuthOk(user.id)

\* error_handler_middleware: any exception that is no PiglistException
InternalError(op, exc, cred, email, password) ==
    Response(op, 500, "Internal server error", exc,
             NoToken, NoToken, cred, email, password, NoUser, TRUE)

----------------------------------------------------------------------------
(* Credentials a client can present *)

OddTokens ==
    { Garbage,
      create_access_token([sub |-> AbsentSub, email |-> Absent]),
      create_refresh_token([sub |-> AbsentSub]),
      create_access_token([sub |-> StrOf(Len(users) + 1), email |-> Absent]),
      create_refresh_token([sub |-> StrOf(Len(users) + 1)]),
      jwt_encode([sub |-> StrOf(1), email |-> Absent, type |-> Absent,
                  exp |-> now + 1], SECRET_KEY),
      jwt_encode([sub |-> StrOf(1), email |-> Absent, type |-> "other",
                  exp |-> now + 1], SECRET_KEY),
      jwt_encode([sub |-> StrOf(1), email |-> Absent, type |-> "access",
                  exp |-> now + 1], "attacker-key") }

Presentable == issued \cup OddTokens

----------------------------------------------------------------------------
Init ==
    /\ users = <<>>
    /\ sessions = <<>>
    /\ now = 0
    /\ steps = 0
    /\ issued = {}
    /\ used = <<>>
    /\ reg = [w \in Workers |-> IdleReg]
    /\ loggedout = {}
    /\ resp = NoResponse

\* the instants at which a token handed out or a session expires
Expiries ==
    {t.claims.exp : t \in issued} \cup {sessions[s].expires : s \in DOMAIN sessions}

\* the clock advances by one second, or to a later expiry instant
TickSteps == {1} \cup {e - now : e \in {x \in Expiries : x > now}}

\* time passes; Redis evicts what has expired
Tick(d) ==
    /\ steps < MaxSteps
    /\ steps' = steps + 1
    /\ now' = now + d
    /\ sessions' = Evict(now + d)
    /\ resp' = NoResponse
    /\ UNCHANGED <<users, issued, used, reg, loggedout>>

\* an administrator suspends an account (users.is_active)
Deactivate(id) ==
    /\ id \in UserIds
    /\ users[id].is_active
    /\ steps < MaxSteps
    /\ steps' = steps + 1
    /\ users' = [users EXCEPT ![id].is_active = FALSE]
    /\ resp' = NoResponse
    /\ UNCHANGED <<sessions, now, issued, used, reg, loggedout>>

\* request tasks are anonymous: a new request takes the first idle one
FreeWorker ==
    IF \E w \in Workers : reg[w].pc = "idle"
    THEN CHOOSE w \in Workers : reg[w].pc = "idle" /\ \A v \in Workers : reg[v].pc = "idle" => w <= v
    ELSE 0

\* POST /auth/register, up to the await after the e-mail pre-check
register_check(w, email, password, display_name) ==
    /\ steps < MaxSteps
    /\ w = FreeWorker
    /\ steps' = steps + 1
    /\ IF create_user_check(email)
       THEN /\ reg' = [reg EXCEPT ![w] =
                         [pc |-> "insert", n |-> steps + 1, email |-> email,
                          password |-> password, display_name |-> display_name]]
            /\ resp' = NoResponse
       ELSE /\ resp' = Response("register", 400,
                                "User with email " \o email \o " already exists",
                                "ConflictError", NoToken, NoToken, NoToken,
                                email, password, NoUser, TRUE)
            /\ UNCHANGED reg
    /\ UNCHANGED <<users, sessions, now, issued, used, loggedout>>

\* faulty variant: the insert is undone when the session write fails
register_commit_atomic(w) ==
    /\ reg[w].pc = "insert"
    /\ reg' = [reg EXCEPT ![w] = IdleReg]
    /\ LET r == reg[w]
           id == Len(users) + 1
           row == NewUser(r.email, r.password, r.display_name, r.n)
       IN  IF ~unique_email_ok(r.email)
           THEN /\ resp' = InternalError("register", "IntegrityError",
                                         NoToken, r.email, r.password)
                /\ UNCHANGED <<users, sessions, issued>>
           ELSE \E redis_ok \in BOOLEAN :
                     IF redis_ok
                     THEN LET access == create_access_token(
                                            [sub |-> StrOf(id), email |-> row.email])
                              refresh == RefreshFor(id)
                          IN  /\ users' = Append(users, row)
                              /\ sessions' = set_session(generate_session_id(r.n), id)
                              /\ issued' = issued \cup {access, refresh}
                              /\ resp' = Response("register", 201, "", "",
                                                  access, refresh, NoToken,
                                                  r.email, r.password, id, TRUE)
                     ELSE /\ resp' = InternalError("register", "RedisError",
                                                   NoToken, r.email, r.password)
                          /\ UNCHANGED <<users, sessions, issued>>
    /\ UNCHANGED <<now, steps, used, loggedout>>

\* POST /auth/register, from the insert to the response: the commit (where the
\* database checks the unique constraint), the token pair, the session write
register_commit(w) ==
    /\ reg[w].pc = "insert"
    /\ reg' = [reg EXCEPT ![w] = IdleReg]
    /\ LET r == reg[w]
           id == Len(users) + 1
           row == NewUser(r.email, r.password, r.display_name, r.n)
       IN  IF ~unique_email_ok(r.email)
           THEN /\ resp' = InternalError("register", "IntegrityError",
                                         NoToken, r.email, r.password)
                /\ UNCHANGED <<users, sessions, issued>>
           ELSE /\ users' = Append(users, row)
                /\ \E redis_ok \in BOOLEAN :
                     IF redis_ok
                     THEN LET access == create_access_token(
                                            [sub |-> StrOf(id), email |-> row.email])
                              refresh == RefreshFor(id)
                          IN  /\ sessions' = set_session(generate_session_id(r.n), id)
                              /\ issued' = issued \cup {access, refresh}
                              /\ resp' = Response("register", 201, "", "",
                                                  access, refresh, NoToken,
                                                  r.email, r.password, id, TRUE)
                     ELSE /\ resp' = InternalError("register", "RedisError",
                                                   NoToken, r.email, r.password)
                          /\ UNCHANGED <<sessions, issued>>
    /\ UNCHANGED <<now, steps, used, loggedout>>

\* faulty variant: last_login is stamped once the password has verified,
\* before the account is found inactive
login_stamps_inactive(email, password) ==
    /\ steps < MaxSteps
    /\ steps' = steps + 1
    /\ LET auth == authenticate_user(email, password)
           user == get_user_by_email(email)
       IN  IF ~auth.ok
           THEN /\ resp' = Response("login", 401, auth.message,
                                    "UnauthorizedError", NoToken, NoToken, NoToken,
                                    email, password, NoUser, TRUE)
                /\ users' = IF auth.message = "User account is inactive"
                            THEN [users EXCEPT ![user.id].last_login = now]
                            ELSE users
                /\ UNCHANGED <<sessions, issued>>
           ELSE /\ users' = [users EXCEPT ![auth.id].last_login = now]
                /\ \E redis_ok \in BOOLEAN :
                     IF redis_ok
                     THEN /\ sessions' = set_session(generate_session_id(steps + 1), auth.id)
                          /\ issued' = issued \cup {AccessFor(auth.id), RefreshFor(auth.id)}
                          /\ resp' = Response("login", 200, "", "",
                                              AccessFor(auth.id), RefreshFor(auth.id),
                                              NoToken, email, password, auth.id, TRUE)
                     ELSE /\ resp' = InternalError("login", "RedisError",
                                                   NoToken, email, password)
                          /\ UNCHANGED <<sessions, issued>>
    /\ UNCHANGED <<now, used, reg, loggedout>>

\* POST /auth/login
login(email, password) ==
    /\ steps < MaxSteps
    /\ steps' = steps + 1
    /\ LET auth == authenticate_user(email, password)
       IN  IF ~auth.ok
           THEN /\ resp' = Response("login", 401, auth.message,
                                    "UnauthorizedError", NoToken, NoToken, NoToken,
                                    email, password, NoUser, TRUE)
                /\ UNCHANGED <<users, sessions, issued>>
           ELSE /\ users' = [users EXCEPT ![auth.id].last_login = now]
                /\ \E redis_ok \in BOOLEAN :
                     IF redis_ok
                     THEN /\ sessions' = set_session(generate_session_id(steps + 1), auth.id)
                          /\ issued' = issued \cup {AccessFor(auth.id), RefreshFor(auth.id)}
                          /\ resp' = Response("login", 200, "", "",
                                              AccessFor(auth.id), RefreshFor(auth.id),
                                              NoToken, email, password, auth.id, TRUE)
                     ELSE /\ resp' = InternalError("login", "RedisError",
                                                   NoToken, email, password)
                          /\ UNCHANGED <<sessions, issued>>
    /\ UNCHANGED <<now, used, reg, loggedout>>

\* faulty variant: a successful refresh writes a session, as login does
refresh_token_writes_session(token) ==
    /\ steps < MaxSteps
    /\ steps' = steps + 1
    /\ LET chk == refresh_token_checks(token)
       IN  IF ~chk.ok
           THEN /\ resp' = Response("refresh", chk.status, chk.detail,
                                    "HTTPException", NoToken, NoToken, token,
                                    "", "", NoUser, TRUE)
                /\ UNCHANGED <<issued, used, sessions>>
           ELSE /\ resp' = Response("refresh", 200, "", "",
                                    AccessFor(chk.user), RefreshFor(chk.user), token,
                                    "", "", chk.user, TRUE)
                /\ issued' = issued \cup {AccessFor(chk.user), RefreshFor(chk.user)}
                /\ used' = Append(used, token)
                /\ sessions' = set_session(generate_session_id(steps + 1), chk.user)
    /\ UNCHANGED <<users, now, reg, loggedout>>

\* POST /auth/refresh
refresh_token(token) ==
    /\ steps < MaxSteps
    /\ steps' = steps + 1
    /\ LET chk == refresh_token_checks(token)
       IN  IF ~chk.ok
           THEN /\ resp' = Response("refresh", chk.status, chk.detail,
                                    "HTTPException", NoToken, NoToken, token,
                                    "", "", NoUser, TRUE)
                /\ UNCHANGED <<issued, used>>
           ELSE /\ resp' = Response("refresh", 200, "", "",
                                    AccessFor(chk.user), RefreshFor(chk.user), token,
                                    "", "", chk.user, TRUE)
                /\ issued' = issued \cup {AccessFor(chk.user), RefreshFor(chk.user)}
                /\ used' = Append(used, token)
    /\ UNCHANGED <<users, sessions, now, reg, loggedout>>

Rejected(op, auth, cred) ==
    Response(op, auth.status, auth.detail, "HTTPException",
             NoToken, NoToken, cred, "", "", NoUser, FALSE)

\* faulty variant: a successful logout deletes the sessions of the user
logout_deletes_sessions(cred) ==
    /\ steps < MaxSteps
    /\ steps' = steps + 1
    /\ LET auth == current_user(cred)
       IN  /\ resp' = IF auth.ok
                      THEN Response("logout", 204, "", "",
                                    NoToken, NoToken, cred, "", "", auth.user, TRUE)
                      ELSE Rejected("logout", auth, cred)
           /\ sessions' = IF auth.ok
                          THEN [x \in {y \in DOMAIN sessions :
                                         sessions[y].value # StrOf(auth.user)}
                                  |-> sessions[x]]
                          ELSE sessions
           /\ loggedout' = IF auth.ok THEN loggedout \cup {cred} ELSE loggedout
    /\ UNCHANGED <<users, now, issued, used, reg>>

\* POST /auth/logout
logout(cred) ==
    /\ steps < MaxSteps
    /\ steps' = steps + 1
    /\ LET auth == current_user(cred)
       IN  /\ resp' = IF auth.ok
                      THEN Response("logout", 204, "", "",
                                    NoToken, NoToken, cred, "", "", auth.user, TRUE)
                      ELSE Rejected("logout", auth, cred)
           /\ loggedout' = IF auth.ok THEN loggedout \cup {cred} ELSE loggedout
    /\ UNCHANGED <<users, sessions, now, issued, used, reg>>

\* GET /users/me
get_current_user_profile(cred) ==
    /\ steps < MaxSteps
    /\ steps' = steps + 1
    /\ LET auth == current_user(cred)
       IN  resp' = IF auth.ok
                   THEN Response("get_profile", 200, "", "",
                                 NoToken, NoToken, cred, "", "", auth.user, TRUE)
                   ELSE Rejected("get_profile", auth, cred)
    /\ UNCHANGED <<users, sessions, now, issued, used, reg, loggedout>>

\* faulty variant: the update also stamps last_login
update_user_stamps_login(user_id, display_name) ==
    IF display_name = Absent
    THEN users
    ELSE [users EXCEPT ![user_id].display_name = Strip(display_name),
                       ![user_id].last_login = now]

\* faulty variant: the changed row is added as a new row
update_user_adds_row(user_id, display_name) ==
    IF display_name = Absent
    THEN users
    ELSE Append(users, [users[user_id] EXCEPT !.display_name = Strip(display_name)])

\* update_user: only the display name, and only when the body provides one
update_user(user_id, display_name) ==
    IF display_name = Absent
    THEN users
    ELSE [users EXCEPT ![user_id].display_name = Strip(display_name)]

\* PUT /users/me
update_current_user_profile(cred, display_name) ==
    /\ steps < MaxSteps
    /\ steps' = steps + 1
    /\ LET auth == current_user(cred)
       IN  IF auth.ok
           THEN /\ users' = update_user(auth.user, display_name)
                /\ resp' = Response("update_profile", 200, "", "",
                                    NoToken, NoToken, cred, "", "", auth.user, TRUE)
           ELSE /\ resp' = Rejected("update_profile", auth, cred)
                /\ UNCHANGED users
    /\ UNCHANGED <<sessions, now, issued, used, reg, loggedout>>

Next ==
    \/ \E d \in TickSteps : Tick(d)
    \/ \E id \in UserIds : Deactivate(id)
    \/ \E w \in Workers, e \in Emails, p \in RegisterPasswords, dn \in DisplayNames :
          register_check(w, e, p, dn)
    \/ \E w \in Workers : register_commit(w)
    \/ \E e \in Emails, p \in Passwords : login(e, p)
    \/ \E t \in Presentable : refresh_token(t)
    \/ \E c \in Presentable \cup {NoToken} : logout(c)
    \/ \E c \in Presentable \cup {NoToken} : get_current_user_profile(c)
    \/ \E c \in Presentable \cup {NoToken}, dn \in UpdateNames : update_current_user_profile(c, dn)

Spec == Init /\ [][Next]_vars

----------------------------------------------------------------------------
(* The token codec on its own: tokens are issued from arbitrary claim sets,  *)
(* time passes, and tokens (or corruptions of them) are decoded.  used logs *)
(* what was issued, resp holds the last decode.                             *)

\* the dicts a token is issued from: sub a string, a number or missing,
\* email a string or missing
ClaimSets ==
    [sub : {AbsentSub, StrOf(1), IntSub(1)}, email : {Absent, "user@x.com"}]

TokenTypes == {"access", "refresh"}

\* the lifetime of a token of the type, in seconds
TtlOf(type) ==
    IF type = "access"
    THEN ACCESS_TOKEN_EXPIRE_MINUTES * SecondsPerMinute
    ELSE REFRESH_TOKEN_EXPIRE_MINUTES * SecondsPerMinute

NoDecode == [op |-> "none", token |-> NoToken, result |-> InvalidToken]

CodecInit ==
    /\ users = <<>>
    /\ sessions = <<>>
    /\ now = 0
    /\ steps = 0
    /\ issued = {}
    /\ used = <<>>
    /\ reg = [w \in Workers |-> IdleReg]
    /\ loggedout = {}
    /\ resp = NoDecode

\* create_access_token(data) or create_refresh_token(data)
CodecIssue(data, type) ==
    /\ steps < MaxSteps
    /\ steps' = steps + 1
    /\ LET token == IF type = "access"
                    THEN create_access_token(data)
                    ELSE create_refresh_token(data)
       IN  /\ issued' = issued \cup {token}
           /\ used' = Append(used, [data |-> data, type |-> type,
                                    token |-> token, at |-> now])
    /\ resp' = NoDecode
    /\ UNCHANGED <<users, sessions, now, reg, loggedout>>

CodecTick(d) ==
    /\ steps < MaxSteps
    /\ steps' = steps + 1
    /\ now' = now + d
    /\ resp' = NoDecode
    /\ UNCHANGED <<users, sessions, issued, used, reg, loggedout>>

\* what can be handed to decode_token: an issued token, the same payload
\* signed with another key, a string that is no token
CodecTokens ==
    issued \cup {[t EXCEPT !.key = "attacker-key"] : t \in issued} \cup {Garbage}

\* decode_token(token)
CodecDecode(token) ==
    /\ steps < MaxSteps
    /\ steps' = steps + 1
    /\ resp' = [op |-> "decode", token |-> token, result |-> decode_token(token)]
    /\ UNCHANGED <<users, sessions, now, issued, used, reg, loggedout>>

CodecNext ==
    \/ \E c \in ClaimSets, t \in TokenTypes : CodecIssue(c, t)
    \/ \E d \in TickSteps : CodecTick(d)
    \/ \E t \in CodecTokens : CodecDecode(t)

CodecSpec == CodecInit /\ [][CodecNext]_vars

----------------------------------------------------------------------------
(* How a failure raised inside a handler reaches the caller: the handler's  *)
(* own except clauses first, then error_handler_middleware.                 *)

\* the subclasses of PiglistException
PiglistExceptions ==
    {"AuthenticationError", "UnauthorizedError", "AuthorizationError",
     "NotFoundError", "ConflictError", "ValidationError", "RateLimitError"}

\* what a service call can raise: a PiglistException or any other exception
ExceptionKinds == PiglistExceptions \cup {"Exception"}

\* the status_code each subclass passes to PiglistException.__init__
status_code(kind) ==
    CASE kind = "AuthenticationError" -> 401
      [] kind = "UnauthorizedError"   -> 401
      [] kind = "AuthorizationError"  -> 403
      [] kind = "NotFoundError"       -> 404
      [] kind = "ConflictError"       -> 409
      [] kind = "ValidationError"     -> 422
      [] kind = "RateLimitError"      -> 429
      [] OTHER                        -> 500

\* the route handlers; test_error is GET /test/error of main.py
Handlers ==
    {"register", "login", "refresh", "logout", "get_profile", "update_profile",
     "test_error"}

Failure(op, status, detail, exc) ==
    Response(op, status, detail, exc, NoToken, NoToken, NoToken, "", "", NoUser, TRUE)

\* faulty variant: the middleware has no branch for PiglistException
error_handler_all_500(op, kind, message) ==
    Failure(op, 500, "Internal server error", kind)

\* error_handler_middleware: a PiglistException is answered with its own
\* status_code and message, anything else with 500
error_handler_middleware(op, kind, message) ==
    IF kind \in PiglistExceptions
    THEN Failure(op, status_code(kind), message, kind)
    ELSE Failure(op, 500, "Internal server error", kind)

\* the except clauses of the handlers: register turns ConflictError into
\* HTTPException 400, login UnauthorizedError into 401, update_current_user_
\* profile NotFoundError into 404; everything else is raised again
handler_except(op, kind, message) ==
    IF op = "register" /\ kind = "ConflictError"
    THEN Failure(op, 400, message, kind)
    ELSE IF op = "login" /\ kind = "UnauthorizedError"
    THEN Failure(op, 401, message, kind)
    ELSE IF op = "update_profile" /\ kind = "NotFoundError"
    THEN Failure(op, 404, message, kind)
    ELSE error_handler_middleware(op, kind, message)

TransportInit ==
    /\ users = <<>>
    /\ sessions = <<>>
    /\ now = 0
    /\ steps = 0
    /\ issued = {}
    /\ used = <<>>
    /\ reg = [w \in Workers |-> IdleReg]
    /\ loggedout = {}
    /\ resp = NoResponse

\* a request to handler op in which the service raises an exception of the kind
RaiseIn(op, kind) ==
    /\ steps < MaxSteps
    /\ steps' = steps + 1
    /\ resp' = handler_except(op, kind, "message of " \o kind)
    /\ UNCHANGED <<users, sessions, now, issued, used, reg, loggedout>>

TransportNext == \E op \in Handlers, kind \in ExceptionKinds : RaiseIn(op, kind)

TransportSpec == TransportInit /\ [][TransportNext]_vars

----------------------------------------------------------------------------
(* The event loop.  The handlers are coroutines of one asyncio loop: one    *)
(* thread runs one coroutine at a time, from one await to the next.         *)
(* create_user and authenticate_user call get_password_hash and             *)
(* verify_password directly, between two awaits, so bcrypt runs on that     *)
(* thread.  reg holds each request's position.                              *)

\* the handlers that hash or verify a password
HashingOps == {"register", "login"}

IdleTask == [pc |-> "idle", op |-> ""]

\* no coroutine is inside bcrypt: the loop's thread is free to run a coroutine
LoopFree == \A w \in Workers : reg[w].pc # "hashing"

LoopInit ==
    /\ users = <<>>
    /\ sessions = <<>>
    /\ now = 0
    /\ steps = 0
    /\ issued = {}
    /\ used = <<>>
    /\ reg = [w \in Workers |-> IdleTask]
    /\ loggedout = {}
    /\ resp = NoResponse

\* the loop starts the handler, which runs to its first await:
\* await get_user_by_email(db, email)
Accept(w, op) ==
    /\ steps < MaxSteps
    /\ LoopFree
    /\ reg[w].pc = "idle"
    /\ steps' = steps + 1
    /\ reg' = [reg EXCEPT ![w] = [pc |-> "await_lookup", op |-> op]]
    /\ resp' = NoResponse
    /\ UNCHANGED <<users, sessions, now, issued, used, loggedout>>

\* the database answers: the awaited coroutine becomes ready to be resumed
IoDone(w) ==
    /\ reg[w].pc \in {"await_lookup", "await_commit"}
    /\ reg' = [reg EXCEPT ![w].pc =
                  IF reg[w].pc = "await_lookup" THEN "ready_hash" ELSE "ready_finish"]
    /\ resp' = NoResponse
    /\ UNCHANGED <<users, sessions, now, steps, issued, used, loggedout>>

\* the loop resumes the coroutine, which enters bcrypt.hashpw / bcrypt.checkpw
StartHash(w) ==
    /\ LoopFree
    /\ reg[w].pc = "ready_hash"
    /\ reg' = [reg EXCEPT ![w].pc = "hashing"]
    /\ resp' = NoResponse
    /\ UNCHANGED <<users, sessions, now, steps, issued, used, loggedout>>

\* bcrypt returns; the coroutine runs on to its next await: await db.commit()
EndHash(w) ==
    /\ reg[w].pc = "hashing"
    /\ reg' = [reg EXCEPT ![w].pc = "await_commit"]
    /\ resp' = NoResponse
    /\ UNCHANGED <<users, sessions, now, steps, issued, used, loggedout>>

\* the loop resumes the coroutine after the commit; it runs to its response
Finish(w) ==
    /\ LoopFree
    /\ reg[w].pc = "ready_finish"
    /\ reg' = [reg EXCEPT ![w] = IdleTask]
    /\ resp' = Response(reg[w].op, 200, "", "", NoToken, NoToken, NoToken,
                        "", "", NoUser, TRUE)
    /\ UNCHANGED <<users, sessions, now, steps, issued, used, loggedout>>

LoopNext ==
    \/ \E w \in Workers, op \in HashingOps : Accept(w, op)
    \/ \E w \in Workers : IoDone(w)
    \/ \E w \in Workers : StartHash(w)
    \/ \E w \in Workers : EndHash(w)
    \/ \E w \in Workers : Finish(w)

LoopSpec == LoopInit /\ [][LoopNext]_vars

----------------------------------------------------------------------------
(* The password hasher on its own: passwords are hashed, and passwords are  *)
(* verified against the hashes made so far or against a string that is no  *)
(* hash.  used logs the hashes made, resp holds the last call.              *)

HasherPasswords == {"Secret123", "Wrong456", LongP, LongQ}

NoCall ==
    [op |-> "none", password |-> "", hashed |-> MalformedHash,
     result |-> [raised |-> "", value |-> FALSE]]

HasherInit ==
    /\ users = <<>>
    /\ sessions = <<>>
    /\ now = 0
    /\ steps = 0
    /\ issued = {}
    /\ used = <<>>
    /\ reg = [w \in Workers |-> IdleReg]
    /\ loggedout = {}
    /\ resp = NoCall

\* get_password_hash(password); bcrypt.gensalt() draws a salt not drawn before
HasherHash(password, build) ==
    /\ steps < MaxSteps
    /\ steps' = steps + 1
    /\ LET call == get_password_hash_call(password, steps + 1, build)
       IN  /\ used' = IF call.raised = ""
                      THEN Append(used, [password |-> password, hashed |-> call.hashed])
                      ELSE used
           /\ resp' = [op |-> "hash", password |-> password, hashed |-> call.hashed,
                       result |-> [raised |-> call.raised, value |-> FALSE]]
    /\ UNCHANGED <<users, sessions, now, issued, reg, loggedout>>

\* the strings verify_password can be given as the stored hash
StoredHashes == {used[i].hashed : i \in DOMAIN used} \cup {MalformedHash}

\* verify_password(plain_password, hashed_password)
HasherVerify(password, hashed, build) ==
    /\ steps < MaxSteps
    /\ steps' = steps + 1
    /\ resp' = [op |-> "verify", password |-> password, hashed |-> hashed,
                result |-> verify_password_call(password, hashed, build)]
    /\ UNCHANGED <<users, sessions, now, issued, used, reg, loggedout>>

HasherNext ==
    \/ \E p \in HasherPasswords, b \in BcryptBuilds : HasherHash(p, b)
    \/ \E p \in HasherPasswords, h \in StoredHashes, b \in BcryptBuilds :
          HasherVerify(p, h, b)

HasherSpec == HasherInit /\ [][HasherNext]_vars

----------------------------------------------------------------------------
(* The session store functions on their own: sessions are set, read,        *)
(* deleted and refreshed while time passes.  used records, per session id,  *)
(* the last call that wrote it; resp holds the last call.                   *)

SessionIds == {1, 2}

SessionUsers == {1, 2}

\* expire_seconds of a call
SessionTtls == {2, 5}

NeverWritten == [op |-> "none", user |-> NoUser, at |-> 0, ttl |-> 0]

NoStoreCall == [op |-> "none", id |-> 0, result |-> NoSession]

SessionInit ==
    /\ users = <<>>
    /\ sessions = <<>>
    /\ now = 0
    /\ steps = 0
    /\ issued = {}
    /\ used = [id \in SessionIds |-> NeverWritten]
    /\ reg = [w \in Workers |-> IdleReg]
    /\ loggedout = {}
    /\ resp = NoStoreCall

\* await set_session(session_id, user_id, expire_seconds)
SessionSet(id, user_id, ttl) ==
    /\ steps < MaxSteps
    /\ steps' = steps + 1
    /\ sessions' = set_session_for(id, user_id, ttl)
    /\ used' = [used EXCEPT ![id] =
                   [op |-> "set", user |-> user_id, at |-> now, ttl |-> ttl]]
    /\ resp' = [op |-> "set", id |-> id, result |-> [found |-> TRUE, user |-> user_id]]
    /\ UNCHANGED <<users, now, issued, reg, loggedout>>

\* await get_session(session_id)
SessionGet(id) ==
    /\ steps < MaxSteps
    /\ steps' = steps + 1
    /\ resp' = [op |-> "get", id |-> id, result |-> get_session(id)]
    /\ UNCHANGED <<users, sessions, now, issued, used, reg, loggedout>>

\* await delete_session(session_id)
SessionDelete(id) ==
    /\ steps < MaxSteps
    /\ steps' = steps + 1
    /\ LET call == delete_session(id)
       IN  /\ sessions' = call.store
           /\ used' = IF call.ok THEN [used EXCEPT ![id] = NeverWritten] ELSE used
           /\ resp' = [op |-> "delete", id |-> id,
                       result |-> [found |-> call.ok, user |-> NoUser]]
    /\ UNCHANGED <<users, now, issued, reg, loggedout>>

\* await refresh_session(session_id, expire_seconds)
SessionRefresh(id, ttl) ==
    /\ steps < MaxSteps
    /\ steps' = steps + 1
    /\ LET call == refresh_session(id, ttl)
       IN  /\ sessions' = call.store
           /\ used' = IF call.ok
                      THEN [used EXCEPT ![id] =
                              [op |-> "refresh", user |-> used[id].user,
                               at |-> now, ttl |-> ttl]]
                      ELSE used
           /\ resp' = [op |-> "refresh", id |-> id,
                       result |-> [found |-> call.ok, user |-> NoUser]]
    /\ UNCHANGED <<users, now, issued, reg, loggedout>>

\* time passes; Redis evicts what has expired
SessionTick(d) ==
    /\ steps < MaxSteps
    /\ steps' = steps + 1
    /\ now' = now + d
    /\ sessions' = Evict(now + d)
    /\ resp' = NoStoreCall
    /\ UNCHANGED <<users, issued, used, reg, loggedout>>

SessionNext ==
    \/ \E id \in SessionIds, u \in SessionUsers, ttl \in SessionTtls :
          SessionSet(id, u, ttl)
    \/ \E id \in SessionIds : SessionGet(id)
    \/ \E id \in SessionIds : SessionDelete(id)
    \/ \E id \in SessionIds, ttl \in SessionTtls : SessionRefresh(id, ttl)
    \/ \E d \in TickSteps : SessionTick(d)

SessionSpec == SessionInit /\ [][SessionNext]_vars

----------------------------------------------------------------------------
(* Token issuance on its own: access tokens are issued with and without a   *)
(* lifetime of the caller's, refresh tokens with the configured one, while  *)
(* time passes.  resp holds the last call.                                  *)

\* the expires_delta values a caller passes
Deltas == {NoDelta, Seconds(0), Seconds(1), Seconds(60)}

IssueData == [sub : {StrOf(1), StrOf(2)}, email : {"user@x.com"}]

NoIssue ==
    [op |-> "none", type |-> "", delta |-> NoDelta, token |-> NoToken, at |-> 0]

IssueInit ==
    /\ users = <<>>
    /\ sessions = <<>>
    /\ now = 0
    /\ steps = 0
    /\ issued = {}
    /\ used = <<>>
    /\ reg = [w \in Workers |-> IdleReg]
    /\ loggedout = {}
    /\ resp = NoIssue

\* create_access_token(data, expires_delta)
IssueAccess(data, expires_delta) ==
    /\ steps < MaxSteps
    /\ steps' = steps + 1
    /\ LET token == create_access_token_expires(data, expires_delta)
       IN  /\ issued' = issued \cup {token}
           /\ resp' = [op |-> "issue", type |-> "access", delta |-> expires_delta,
                       token |-> token, at |-> now]
    /\ UNCHANGED <<users, sessions, now, used, reg, loggedout>>

\* create_refresh_token(data)
IssueRefresh(data) ==
    /\ steps < MaxSteps
    /\ steps' = steps + 1
    /\ LET token == create_refresh_token(data)
       IN  /\ issued' = issued \cup {token}
           /\ resp' = [op |-> "issue", type |-> "refresh", delta |-> NoDelta,
                       token |-> token, at |-> now]
    /\ UNCHANGED <<users, sessions, now, used, reg, loggedout>>

\* time passes
IssueTick ==
    /\ steps < MaxSteps
    /\ steps' = steps + 1
    /\ now' = now + 1
    /\ resp' = NoIssue
    /\ UNCHANGED <<users, sessions, issued, used, reg, loggedout>>

IssueNext ==
    \/ \E data \in IssueData, d \in Deltas : IssueAccess(data, d)
    \/ \E data \in IssueData : IssueRefresh(data)
    \/ IssueTick

IssueSpec == IssueInit /\ [][IssueNext]_vars

----------------------------------------------------------------------------
(* A store fails under a request.  register, login and refresh call the     *)
(* user store and the session store in a fixed order; any of the calls can  *)
(* raise an exception that is no PiglistException.  reg[1] holds the        *)
(* request in progress and the store calls it has made, used the calls of   *)
(* the request that was answered last, resp that answer.                    *)

\* the handlers that issue tokens
IssuingOps == {"register", "login", "refresh"}

\* the awaited store calls of a handler, in the order of its body
StoreCalls(op) ==
    CASE op = "register" -> <<"db.select_user_by_email", "db.commit",
                              "db.refresh", "redis.setex">>
      [] op = "login"    -> <<"db.select_user_by_email", "db.commit", "redis.setex">>
      [] op = "refresh"  -> <<"db.select_user_by_id">>

\* what a store raises when it cannot be reached, and what the exception says
StoreFailures == {"OperationalError", "ConnectionError"}

FailureText(kind) == kind \o ": cannot connect to 10.0.0.5"

NoRequest == [pc |-> "idle", op |-> "", calls |-> <<>>]

\* faulty variant: a call that failed is made a second time before giving up
attempt_twice(calls, call) == calls \o <<call, call>>

\* the handler awaits the call once
attempt(calls, call) == Append(calls, call)

\* the status of the answer of a handler that returns normally
SuccessStatus(op) == IF op = "register" THEN 201 ELSE 200

OutageInit ==
    /\ users = <<>>
    /\ sessions = <<>>
    /\ now = 0
    /\ steps = 0
    /\ issued = {}
    /\ used = <<>>
    /\ reg = [w \in Workers |-> NoRequest]
    /\ loggedout = {}
    /\ resp = NoResponse

\* a request arrives
OutageStart(op) ==
    /\ reg[1].pc = "idle"
    /\ steps < MaxSteps
    /\ steps' = steps + 1
    /\ reg' = [reg EXCEPT ![1] = [pc |-> "running", op |-> op, calls |-> <<>>]]
    /\ resp' = NoResponse
    /\ UNCHANGED <<users, sessions, now, issued, used, loggedout>>

\* the next store call of the handler returns
StoreCallReturns ==
    /\ reg[1].pc = "running"
    /\ Len(reg[1].calls) < Len(StoreCalls(reg[1].op))
    /\ reg' = [reg EXCEPT ![1].calls =
                  attempt(@, StoreCalls(reg[1].op)[Len(reg[1].calls) + 1])]
    /\ resp' = NoResponse
    /\ UNCHANGED <<users, sessions, now, steps, issued, used, loggedout>>

\* the next store call of the handler raises: `except Exception: raise`, then
\* the middleware
StoreCallRaises(kind) ==
    /\ reg[1].pc = "running"
    /\ Len(reg[1].calls) < Len(StoreCalls(reg[1].op))
    /\ used' = attempt(reg[1].calls, StoreCalls(reg[1].op)[Len(reg[1].calls) + 1])
    /\ resp' = handler_except(reg[1].op, kind, FailureText(kind))
    /\ reg' = [reg EXCEPT ![1] = NoRequest]
    /\ UNCHANGED <<users, sessions, now, steps, issued, loggedout>>

\* every store call has returned: the handler returns its Token
OutageReturn ==
    /\ reg[1].pc = "running"
    /\ Len(reg[1].calls) = Len(StoreCalls(reg[1].op))
    /\ used' = reg[1].calls
    /\ resp' = Response(reg[1].op, SuccessStatus(reg[1].op), "", "",
                        NoToken, NoToken, NoToken, "", "", NoUser, TRUE)
    /\ reg' = [reg EXCEPT ![1] = NoRequest]
    /\ UNCHANGED <<users, sessions, now, steps, issued, loggedout>>

OutageNext ==
    \/ \E op \in IssuingOps : OutageStart(op)
    \/ StoreCallReturns
    \/ \E kind \in StoreFailures : StoreCallRaises(kind)
    \/ OutageReturn

OutageSpec == OutageInit /\ [][OutageNext]_vars

----------------------------------------------------------------------------
(* Sessions are lost under the handlers: besides expiring, a session is     *)
(* deleted with delete_session (no handler calls it; it is the store's      *)
(* revocation function).  Accounts register and log in, time passes, and    *)
(* tokens are presented to GET /users/me and to refresh.                    *)

\* await delete_session(session_id)
DropSession(id) ==
    /\ id \in DOMAIN sessions
    /\ steps < MaxSteps
    /\ steps' = steps + 1
    /\ sessions' = delete_session(id).store
    /\ resp' = NoResponse
    /\ UNCHANGED <<users, now, issued, used, reg, loggedout>>

SessionLossNext ==
    \/ \E d \in TickSteps : Tick(d)
    \/ \E w \in Workers, e \in Emails, p \in RegisterPasswords, dn \in DisplayNames :
          register_check(w, e, p, dn)
    \/ \E w \in Workers : register_commit(w)
    \/ \E id \in DOMAIN sessions : DropSession(id)
    \/ \E t \in Presentable : refresh_token(t)
    \/ \E c \in Presentable \cup {NoToken} : get_current_user_profile(c)

SessionLossSpec == Init /\ [][SessionLossNext]_vars

----------------------------------------------------------------------------
(* Properties.  resp is the response of the step just taken.  A handler    *)
(* that refuses a request writes nothing, so the state in which a refusal  *)
(* is observed is the state the handler read.                              *)

ProtectedOps == {"logout", "get_profile", "update_profile"}

\* the user a token's sub names
SubjectOf(token) == IntOf(token.claims.sub)

\* the last response carries no token
NoTokensReturned == resp.access_token = NoToken /\ resp.refresh_token = NoToken

\* C1: a refresh token presented to a protected operation is answered 401 and
\* the operation does not run; an access token presented to refresh is
\* answered 401 and no token is returned.
C1_TokenTypeDiscrimination ==
    /\ (resp.op \in ProtectedOps /\ resp.cred.kind = "jwt"
            /\ resp.cred.claims.type = "refresh")
          => (resp.status = 401 /\ ~resp.body /\ resp.user = NoUser)
    /\ (resp.op = "refresh" /\ resp.cred.kind = "jwt"
            /\ resp.cred.claims.type = "access")
          => (resp.status = 401 /\ NoTokensReturned)

\* an issued, unexpired refresh token of an active user was presented to a
\* protected operation and refused for its type alone
C1_Witness ==
    /\ resp.op \in ProtectedOps
    /\ resp.cred \in issued
    /\ resp.cred.claims.type = "refresh"
    /\ decode_token(resp.cred).valid
    /\ users[SubjectOf(resp.cred)].is_active
    /\ resp.status = 401
    /\ resp.detail = "Invalid token type"

\* which of the login cases the credentials fall in, read off the users table
LoginCase(email, password) ==
    IF \A i \in UserIds : users[i].email # email THEN "unknown_email"
    ELSE IF \E i \in UserIds : /\ users[i].email = email
                               /\ ~verify_password(password, users[i].password_hash)
         THEN "wrong_password"
    ELSE IF \E i \in UserIds : users[i].email = email /\ ~users[i].is_active
         THEN "inactive"
    ELSE "ok"

\* C2 (as claimed): in all three failure cases login answers 401 with the one
\* message "Invalid email or password".
C2_LoginFailuresIdentical ==
    (resp.op = "login" /\ LoginCase(resp.email, resp.password) # "ok")
       => (resp.status = 401 /\ resp.detail = "Invalid email or password")

\* C2 (amended): login answers 401 in all three failure cases; an unknown
\* e-mail and a wrong password get the same message, a correct password for
\* an inactive account gets "User account is inactive".
C2_LoginFailures ==
    resp.op = "login" =>
       LET case == LoginCase(resp.email, resp.password)
       IN  /\ case \in {"unknown_email", "wrong_password"}
                => (resp.status = 401 /\ resp.detail = "Invalid email or password"
                      /\ NoTokensReturned)
           /\ case = "inactive"
                => (resp.status = 401 /\ resp.detail = "User account is inactive"
                      /\ NoTokensReturned)

\* a login with the right password for a suspended account was answered
C2_Witness ==
    /\ resp.op = "login"
    /\ LoginCase(resp.email, resp.password) = "inactive"
    /\ resp.status = 401

\* C3: authenticate answers 401 when the token does not decode or is no access
\* token, then 401 when sub is absent, then 401 when no user has that id, then
\* 403 when the user is inactive, and otherwise yields the user whose id is sub.
C3_AuthenticateOrder ==
    (resp.op \in ProtectedOps /\ resp.cred.kind # "none") =>
       LET c == resp.cred
       IN  IF ~decode_token(c).valid \/ c.claims.type # "access"
           THEN resp.status = 401 /\ ~resp.body
           ELSE IF c.claims.sub = AbsentSub
           THEN resp.status = 401 /\ ~resp.body
           ELSE IF SubjectOf(c) \notin UserIds
           THEN resp.status = 401 /\ ~resp.body
           ELSE IF ~users[SubjectOf(c)].is_active
           THEN resp.status = 403 /\ ~resp.body
           ELSE resp.body /\ resp.user = SubjectOf(c) /\ resp.status \in {200, 204}

\* an issued access token of a suspended user was presented and answered 403
C3_Witness ==
    /\ resp.op \in ProtectedOps
    /\ resp.cred \in issued
    /\ decode_token(resp.cred).valid
    /\ resp.cred.claims.type = "access"
    /\ ~users[SubjectOf(resp.cred)].is_active
    /\ resp.status = 403

\* C4: a protected operation runs its body, or changes the users table, the
\* session store or the tokens handed out, only if get_current_user accepted
\* the credentials of that request.
C4_SingleGate ==
    [][ resp'.op \in ProtectedOps =>
          ( (resp'.body \/ users' # users \/ sessions' # sessions \/ issued' # issued)
              => get_current_user(resp'.cred).ok ) ]_vars

\* a profile update carrying a token signed with another key that names an
\* existing user was refused and the user's name is what register stored
C4_Witness ==
    /\ resp.op = "update_profile"
    /\ resp.cred.kind = "jwt"
    /\ resp.cred.key # SECRET_KEY
    /\ SubjectOf(resp.cred) \in UserIds
    /\ ~resp.body
    /\ users[SubjectOf(resp.cred)].display_name = "Ann"

\* C5: a register request whose e-mail is in the users table when it arrives
\* is answered with the ConflictError response and changes nothing: no row, no
\* session, no token, no insert pending.
C5_DuplicateRegister ==
    [][ \A w \in Workers, e \in Emails, p \in RegisterPasswords, dn \in DisplayNames :
          (register_check(w, e, p, dn) /\ (\E i \in UserIds : users[i].email = e))
             => /\ resp'.op = "register"
                /\ resp'.exc = "ConflictError"
                /\ resp'.status = 400
                /\ NoTokensReturned'
                /\ UNCHANGED <<users, sessions, issued, reg>> ]_vars

\* a duplicate registration was refused; the table holds one row with the e-mail
C5_Witness ==
    /\ resp.op = "register"
    /\ resp.exc = "ConflictError"
    /\ Cardinality(IdsWithEmail(resp.email)) = 1

\* C6 (as claimed): whenever a register request fails on a duplicate e-mail,
\* at the pre-check or at the insert, the caller gets the Conflict response.
C6_RaceLoserGetsConflict ==
    (resp.op = "register" /\ resp.status # 201 /\ resp.exc # "RedisError")
       => (resp.exc = "ConflictError" /\ resp.status = 400)

\* C7: no two rows of the users table have the same e-mail.
C7_EmailUnique ==
    \A i, j \in UserIds : users[i].email = users[j].email => i = j

\* two registrations of one e-mail raced; the insert of the loser was refused
C7_Witness ==
    /\ resp.op = "register"
    /\ resp.exc = "IntegrityError"
    /\ Cardinality(IdsWithEmail(resp.email)) = 1

\* C8: refresh answers 401 and returns no token when the token does not decode,
\* is no refresh token, has no sub, or names a user that does not exist or is
\* inactive; otherwise it answers 200 with a token pair.
C8_RefreshRejects ==
    resp.op = "refresh" =>
       LET c == resp.cred
           bad == \/ ~decode_token(c).valid
                  \/ c.claims.type # "refresh"
                  \/ c.claims.sub = AbsentSub
                  \/ SubjectOf(c) \notin UserIds
                  \/ ~users[SubjectOf(c)].is_active
       IN  IF bad
           THEN resp.status = 401 /\ NoTokensReturned
           ELSE /\ resp.status = 200
                /\ resp.access_token \in issued
                /\ resp.refresh_token \in issued

\* an issued, unexpired refresh token of a suspended user was refused
C8_Witness ==
    /\ resp.op = "refresh"
    /\ resp.cred \in issued
    /\ resp.cred.claims.type = "refresh"
    /\ decode_token(resp.cred).valid
    /\ ~users[SubjectOf(resp.cred)].is_active
    /\ resp.status = 401

\* the refresh token of the last refresh request had been consumed by an
\* earlier successful refresh
PreviouslyUsed ==
    \E i \in DOMAIN used :
       used[i] = resp.cred /\ (i < Len(used) \/ resp.status # 200)

C10_OldRefreshTokenInvalid ==
    (resp.op = "refresh" /\ PreviouslyUsed) => resp.status = 401

\* C11: a protected operation that is presented an access token whose exp is
\* in the past, or a string that is no token, answers 401 "Could not validate
\* credentials" in both cases, does not run, and never answers 500.
C11_ExpiredAndCorruptedAlike ==
    (resp.op \in ProtectedOps
        /\ \/ resp.cred.kind = "garbage"
           \/ (resp.cred.kind = "jwt" /\ resp.cred.key = SECRET_KEY
                  /\ resp.cred.claims.type = "access" /\ resp.cred.claims.exp < now))
       => /\ resp.status = 401
          /\ resp.detail = "Could not validate credentials"
          /\ resp.exc = "HTTPException"
          /\ ~resp.body

\* an access token the service issued was presented after its exp and refused
C11_Witness ==
    /\ resp.op \in ProtectedOps
    /\ resp.cred \in issued
    /\ resp.cred.claims.type = "access"
    /\ resp.cred.claims.exp < now
    /\ resp.status = 401
    /\ resp.detail = "Could not validate credentials"

\* C12: decode_token lets no exception out; it returns the claims of the
\* token or the one invalid value, and it returns that invalid value for a
\* string that is no token, a signature made with another key and an expired
\* token alike.
C12_DecodeSingleInvalid ==
    resp.op = "decode" =>
       LET t == resp.token
           r == resp.result
       IN  /\ r.raised = ""
           /\ r = InvalidToken \/ (r.valid /\ r.payload = t.claims)
           /\ (t.kind # "jwt" \/ t.key # SECRET_KEY \/ t.claims.exp < now)
                 => r = InvalidToken

\* a token the codec issued was decoded after its exp
C12_Witness ==
    /\ resp.op = "decode"
    /\ resp.token \in issued
    /\ resp.token.claims.exp < now
    /\ resp.result = InvalidToken

\* the decode of the last step returned the claims the token was issued
\* from, with the type it was issued as and an exp in the future
RoundTrip(entry) ==
    /\ resp.result.valid
    /\ resp.result.payload.sub = entry.data.sub
    /\ resp.result.payload.email = entry.data.email
    /\ resp.result.payload.type = entry.type
    /\ resp.result.payload.exp > now

\* C13 (as claimed): every token, whatever claim set it was issued from,
\* decodes to that claim set and its type while its lifetime has not elapsed.
C13_RoundTripAllClaims ==
    resp.op = "decode" =>
       \A i \in DOMAIN used :
          (used[i].token = resp.token /\ now < used[i].at + TtlOf(used[i].type))
             => RoundTrip(used[i])

\* C13 (amended): a token issued from a claim set whose sub is a string or
\* missing decodes to that claim set and its type, with an exp in the future,
\* while its lifetime has not elapsed.
C13_RoundTrip ==
    resp.op = "decode" =>
       \A i \in DOMAIN used :
          (used[i].token = resp.token /\ now < used[i].at + TtlOf(used[i].type)
              /\ (used[i].data.sub = AbsentSub \/ IsStr(used[i].data.sub)))
             => RoundTrip(used[i])

\* a refresh token issued from a sub and an e-mail was decoded at a later
\* second and gave both back
C13_Witness ==
    /\ resp.op = "decode"
    /\ \E i \in DOMAIN used :
          /\ used[i].token = resp.token
          /\ used[i].type = "refresh"
          /\ used[i].data = [sub |-> StrOf(1), email |-> "user@x.com"]
          /\ now > used[i].at
          /\ RoundTrip(used[i])

\* the one session the step has written: a key that was not in the store,
\* holding the user's id, every other key as it was
OneNewSession(user_id) ==
    \E sid \in DOMAIN sessions' :
       /\ sid \notin DOMAIN sessions
       /\ DOMAIN sessions' = DOMAIN sessions \cup {sid}
       /\ sessions'[sid].value = StrOf(user_id)
       /\ sessions'[sid].expires = now + SESSION_EXPIRE_SECONDS
       /\ \A x \in DOMAIN sessions : sessions'[x] = sessions[x]

\* the step has returned an access and a refresh token naming the user
PairReturnedFor(user_id) ==
    /\ resp'.access_token.kind = "jwt"
    /\ resp'.access_token.claims.type = "access"
    /\ resp'.access_token.claims.sub = StrOf(user_id)
    /\ resp'.refresh_token.kind = "jwt"
    /\ resp'.refresh_token.claims.type = "refresh"
    /\ resp'.refresh_token.claims.sub = StrOf(user_id)

\* C14: a register answered 201 has added exactly one row, with the e-mail of
\* the request, is_active true, last_login null and a password hash that is
\* not the password but verifies it; it has returned an access and a refresh
\* token whose sub is the id of that row; it has written exactly one session,
\* under a new session id, holding that id.
C14_RegisterSuccess ==
    [][ (resp'.op = "register" /\ resp'.status = 201) =>
          LET id == Len(users) + 1
          IN  /\ Len(users') = id
              /\ \A i \in UserIds : users'[i] = users[i]
              /\ \A i \in UserIds : users[i].email # resp'.email
              /\ resp'.user = id
              /\ users'[id].email = resp'.email
              /\ users'[id].is_active
              /\ users'[id].last_login = Null
              /\ users'[id].password_hash.digest # resp'.password
              /\ verify_password(resp'.password, users'[id].password_hash)
              /\ PairReturnedFor(id)
              /\ OneNewSession(id) ]_vars

\* a second account was registered: two rows, two sessions
C14_Witness ==
    /\ resp.op = "register"
    /\ resp.status = 201
    /\ resp.user = 2
    /\ Cardinality(DOMAIN sessions) = 2

\* C15: a login answered 200 was for the e-mail and password of an active
\* account; it has set the last_login of that account to the current time and
\* changed nothing else in the users table, returned an access and a refresh
\* token whose sub is the account's id, and written exactly one session, under
\* a new session id, holding that id.
C15_LoginSuccess ==
    [][ (resp'.op = "login" /\ resp'.status = 200) =>
          LET id == resp'.user
          IN  /\ id \in UserIds
              /\ users[id].email = resp'.email
              /\ verify_password(resp'.password, users[id].password_hash)
              /\ users[id].is_active
              /\ users' = [users EXCEPT ![id].last_login = now]
              /\ PairReturnedFor(id)
              /\ OneNewSession(id) ]_vars

\* a login succeeded at a later second than the registration: last_login is
\* that second, and the account has the session of the registration and one more
C15_Witness ==
    /\ resp.op = "login"
    /\ resp.status = 200
    /\ now > users[resp.user].created_at
    /\ users[resp.user].last_login = now
    /\ Cardinality({x \in DOMAIN sessions : sessions[x].value = StrOf(resp.user)}) = 2

\* C16 (as claimed): the set of user ids never loses an id, and it gains one
\* only in a step of register that answers 201.
C16_OnlySuccessfulRegister ==
    [][ /\ UserIds \subseteq DOMAIN users'
        /\ DOMAIN users' # UserIds
              => (resp'.op = "register" /\ resp'.status = 201) ]_vars

\* C16 (amended): the set of user ids never loses an id; it gains an id only
\* in the insert of a register request, one id at a time, and that request is
\* answered 201, or 500 when the session write after the insert fails.  No
\* login, refresh, logout, profile read or profile update adds or removes a row.
C16_OnlyRegisterCreates ==
    [][ /\ UserIds \subseteq DOMAIN users'
        /\ DOMAIN users' # UserIds
              => /\ Len(users') = Len(users) + 1
                 /\ resp'.op = "register"
                 /\ resp'.status = 201 \/ (resp'.status = 500 /\ resp'.exc = "RedisError")
        /\ resp'.op \in {"login", "refresh", "logout", "get_profile", "update_profile"}
              => DOMAIN users' = UserIds ]_vars

\* a register was answered 500 because the session write failed, and the
\* row it inserted is in the table
C16_Witness ==
    /\ resp.op = "register"
    /\ resp.status = 500
    /\ resp.exc = "RedisError"
    /\ IdsWithEmail(resp.email) # {}

IssuedAt(token) == token.claims.exp - TtlOf(token.claims.type)

\* the access token that was issued in one pair with a refresh token
PairedAccess(token) ==
    jwt_encode([sub   |-> token.claims.sub,
                email |-> users[SubjectOf(token)].email,
                type  |-> "access",
                exp   |-> IssuedAt(token) + TtlOf("access")],
               SECRET_KEY)

\* the refresh token that was issued in one pair with an access token
PairedRefresh(token) ==
    jwt_encode([sub   |-> token.claims.sub,
                email |-> Absent,
                type  |-> "refresh",
                exp   |-> IssuedAt(token) + TtlOf("refresh")],
               SECRET_KEY)

\* C18: an access token that authorised a logout is accepted by
\* get_current_user, and the refresh token issued with it by refresh, in
\* every later state in which the token has not expired and its user is
\* active.
C18_LogoutRevokesNothing ==
    \A t \in loggedout :
       users[SubjectOf(t)].is_active =>
          /\ t.claims.exp > now
                => /\ get_current_user(t).ok
                   /\ get_current_user(t).user = SubjectOf(t)
          /\ PairedRefresh(t).claims.exp > now
                => /\ PairedRefresh(t) \in issued
                   /\ refresh_token_checks(PairedRefresh(t)).ok

\* at a later second than the logout, the profile was served to the access
\* token that had authorised the logout
C18_Witness ==
    /\ resp.op = "get_profile"
    /\ resp.status = 200
    /\ resp.cred \in loggedout
    /\ now > IssuedAt(resp.cred)
    /\ refresh_token_checks(PairedRefresh(resp.cred)).ok

\* C19: a refresh answered 200 at least one second after the presented
\* refresh token was issued returns a refresh token that differs from the
\* presented one and an access token that differs from the access token
\* issued with the presented one.
C19_RotationAfterOneSecond ==
    (resp.op = "refresh" /\ resp.status = 200 /\ now >= IssuedAt(resp.cred) + 1)
       => /\ resp.refresh_token # resp.cred
          /\ resp.access_token # PairedAccess(resp.cred)

\* a refresh token was refreshed exactly one second after a register issued
\* it together with its access token
C19_Witness ==
    /\ resp.op = "refresh"
    /\ resp.status = 200
    /\ now = IssuedAt(resp.cred) + 1
    /\ PairedAccess(resp.cred) \in issued
    /\ users[resp.user].created_at = IssuedAt(resp.cred)

\* the pair a register at the second the row was created returns
RegisterAccess(user_id) ==
    jwt_encode([sub   |-> StrOf(user_id),
                email |-> users[user_id].email,
                type  |-> "access",
                exp   |-> users[user_id].created_at + TtlOf("access")],
               SECRET_KEY)

RegisterRefresh(user_id) ==
    jwt_encode([sub   |-> StrOf(user_id),
                email |-> Absent,
                type  |-> "refresh",
                exp   |-> users[user_id].created_at + TtlOf("refresh")],
               SECRET_KEY)

\* C20 (as claimed): a login answered 200 in the step right after the register
\* of the same account was answered 201 returns an access token and a
\* refresh token that differ from the ones register returned.
C20_LoginPairDiffers ==
    [][ (resp.op = "register" /\ resp.status = 201
           /\ resp'.op = "login" /\ resp'.status = 200 /\ resp'.user = resp.user)
          => /\ resp'.access_token # resp.access_token
             /\ resp'.refresh_token # resp.refresh_token ]_vars

\* C20 (amended): a login answered 200 in a later clock second than the
\* register of the account returns an access and a refresh token that differ
\* from the ones of the register; a login within the same second returns the
\* same two tokens.
C20_LoginPairBySecond ==
    (resp.op = "login" /\ resp.status = 200) =>
       LET id == resp.user
       IN  /\ now > users[id].created_at
                => /\ resp.access_token # RegisterAccess(id)
                   /\ resp.refresh_token # RegisterRefresh(id)
           /\ now = users[id].created_at
                => /\ resp.access_token = RegisterAccess(id)
                   /\ resp.refresh_token = RegisterRefresh(id)

\* a login one second after the register returned another pair than the
\* register did
C20_Witness ==
    /\ resp.op = "login"
    /\ resp.status = 200
    /\ now = users[resp.user].created_at + 1
    /\ RegisterAccess(resp.user) \in issued
    /\ resp.access_token # RegisterAccess(resp.user)
    /\ resp.refresh_token # RegisterRefresh(resp.user)

\* the transport code the taxonomy gives to a kind of failure
TaxonomyCode(kind) ==
    CASE kind = "ConflictError"      -> 409
      [] kind = "UnauthorizedError"  -> 401
      [] kind = "AuthorizationError" -> 403
      [] kind = "NotFoundError"      -> 404
      [] kind = "ValidationError"    -> 422

TaxonomyKinds ==
    {"ConflictError", "UnauthorizedError", "AuthorizationError", "NotFoundError",
     "ValidationError"}

C22_TokenWindows ==
    /\ resp.access_token # NoToken
          => /\ resp.access_token.claims.exp = now + 240 * 60
             /\ resp.refresh_token.claims.exp = now + 43200 * 60
    /\ (resp.op \in ProtectedOps /\ resp.cred \in issued
           /\ resp.cred.claims.type = "access"
           /\ users[SubjectOf(resp.cred)].is_active)
          => /\ now < resp.cred.claims.exp => (resp.body /\ resp.status \in {200, 204})
             /\ now > resp.cred.claims.exp => (resp.status = 401 /\ ~resp.body)
    /\ (resp.op = "refresh" /\ resp.cred \in issued
           /\ resp.cred.claims.type = "refresh"
           /\ users[SubjectOf(resp.cred)].is_active)
          => /\ now < resp.cred.claims.exp => resp.status = 200
             /\ now > resp.cred.claims.exp => (resp.status = 401 /\ NoTokensReturned)
    /\ TtlOf("access") < TtlOf("refresh")

\* a refresh token was presented one second after the 43200 minutes that
\* began when the account was registered, and was refused
C22_Witness ==
    /\ resp.op = "refresh"
    /\ resp.cred \in issued
    /\ resp.cred.claims.type = "refresh"
    /\ users[SubjectOf(resp.cred)].is_active
    /\ now = users[SubjectOf(resp.cred)].created_at + 43200 * 60 + 1
    /\ now = resp.cred.claims.exp + 1
    /\ resp.status = 401

\* the request is in flight and what it awaited has arrived
ReadyToResume(w) == reg[w].pc \in {"ready_hash", "ready_finish"}

\* C23 (as claimed): while one request is inside a password hash or
\* verification, every other request in flight that is ready to be resumed
\* can take its next step.
C23_HashingDoesNotBlock ==
    \A w, v \in Workers :
       (reg[w].pc = "hashing" /\ v # w /\ ReadyToResume(v))
          => ENABLED (StartHash(v) \/ Finish(v))

\* the laws of the hasher for the passwords of the set: hashing returns a
\* hash; a password verifies against a hash exactly when it is the password
\* the hash was made from; every hash verifies its own password; two hashes
\* of one password differ
HashLaws(passwords) ==
    /\ (resp.op = "hash" /\ resp.password \in passwords)
          => resp.result.raised = ""
    /\ resp.op = "verify"
          => \A i \in DOMAIN used :
                (used[i].hashed = resp.hashed /\ resp.password \in passwords
                    /\ used[i].password \in passwords)
                   => /\ resp.result.raised = ""
                      /\ resp.result.value <=> (resp.password = used[i].password)
    /\ \A i \in DOMAIN used :
          used[i].password \in passwords
             => verify_password(used[i].password, used[i].hashed)
    /\ \A i, j \in DOMAIN used :
          (i # j /\ used[i].password = used[j].password
              /\ used[i].password \in passwords)
             => used[i].hashed # used[j].hashed

C25_VerifyNeverRaises ==
    (resp.op = "verify" /\ ~WellFormedHash(resp.hashed))
       => resp.result = [raised |-> "", value |-> FALSE]

\* by the calls made so far the session id holds a record whose time to live
\* has not elapsed
WrittenAndLive(id) ==
    used[id].op \in {"set", "refresh"} /\ now < used[id].at + used[id].ttl

\* C26: when the last write of a session id was set_session(id, u, ttl),
\* get_session(id) returns u at every time before ttl has elapsed since, and
\* None at every time after it, the key then being absent from the store as
\* for an id that was never set; a set_session on an id that exists puts its
\* own value and its own expiry; get_session returns what the store holds.
C26_SessionLifetime ==
    /\ \A id \in SessionIds :
          /\ used[id].op = "set"
                => /\ now < used[id].at + used[id].ttl
                        => /\ get_session(id) = [found |-> TRUE, user |-> used[id].user]
                           /\ sessions[id].expires = used[id].at + used[id].ttl
                   /\ now > used[id].at + used[id].ttl
                        => (get_session(id) = NoSession /\ id \notin DOMAIN sessions)
          /\ used[id].op = "none"
                => (get_session(id) = NoSession /\ id \notin DOMAIN sessions)
    /\ resp.op = "get" => resp.result = get_session(resp.id)

\* a session was set for one user, then set again for another with another
\* time to live, and now, at a time the first expiry has passed, still holds
\* the second user
C26_Witness ==
    \E id \in SessionIds :
       /\ used[id].op = "set"
       /\ used[id].user = 2
       /\ used[id].at > 0
       /\ used[id].ttl = 5
       /\ now >= 2
       /\ now > used[id].at
       /\ get_session(id) = [found |-> TRUE, user |-> 2]

\* C27: delete_session(id) returns true exactly when the id held a live
\* record; after the call get_session(id) returns None and a further
\* delete_session(id) returns false; every other session is as it was.
C27_DeleteSession ==
    [][ \A id \in SessionIds :
          SessionDelete(id)
             => /\ resp'.result.found <=> WrittenAndLive(id)
                /\ get_session(id)' = NoSession
                /\ ~delete_session(id).ok'
                /\ \A o \in SessionIds \ {id} :
                      /\ (o \in DOMAIN sessions) <=> (o \in DOMAIN sessions')
                      /\ o \in DOMAIN sessions => sessions'[o] = sessions[o] ]_vars

\* a live session was deleted while another session was live, and the other
\* one is still there
C27_Witness ==
    /\ resp.op = "delete"
    /\ resp.result.found
    /\ get_session(resp.id) = NoSession
    /\ \E o \in SessionIds \ {resp.id} : get_session(o).found

\* C28: refresh_session(id, ttl) returns true exactly when the id held a live
\* record; then the record expires ttl from now and holds the user it held;
\* otherwise the store is as it was and holds no record for the id.
C28_RefreshSession ==
    [][ \A id \in SessionIds, ttl \in SessionTtls :
          SessionRefresh(id, ttl)
             => /\ resp'.result.found <=> WrittenAndLive(id)
                /\ WrittenAndLive(id)
                      => /\ sessions' = [sessions EXCEPT ![id].expires = now + ttl]
                         /\ get_session(id)' = get_session(id)
                /\ ~WrittenAndLive(id)
                      => (sessions' = sessions /\ id \notin DOMAIN sessions') ]_vars

\* a session set to live 2 seconds was refreshed to 5 after one second and is
\* live at a time it would have expired
C28_Witness ==
    \E id \in SessionIds :
       /\ used[id].op = "refresh"
       /\ used[id].ttl = 5
       /\ used[id].at = 1
       /\ now >= 2
       /\ get_session(id).found
       /\ get_session(id).user = used[id].user

\* C29: a request to logout, GET /users/me or PUT /users/me that carries no
\* bearer credential is answered 403 "Not authenticated"; the response names
\* no user and carries no body of the operation, and the step changes no
\* user row, no session and records no logout.
C29_NoCredentialRejected ==
    [][ (resp'.op \in ProtectedOps /\ resp'.cred = NoToken)
           => /\ resp'.status = 403
              /\ resp'.detail = "Not authenticated"
              /\ resp'.exc = "HTTPException"
              /\ ~resp'.body
              /\ resp'.user = NoUser
              /\ UNCHANGED <<users, sessions, issued, loggedout>> ]_vars

\* PUT /users/me arrived without credentials while an active account exists
\* and was answered 403
C29_Witness ==
    /\ resp.op = "update_profile"
    /\ resp.cred = NoToken
    /\ resp.status = 403
    /\ \E id \in UserIds : users[id].is_active

\* C30: a PUT /users/me step leaves the number of rows as it is, changes no
\* row but that of the authenticated user, and in that row nothing but
\* display_name, which becomes the stripped name of the body; a step that is
\* refused, or whose body gives no display_name, changes no row at all.
C30_UpdateFrame ==
    [][ \A dn \in UpdateNames :
          (resp'.op = "update_profile" /\ update_current_user_profile(resp'.cred, dn))
             => /\ Len(users') = Len(users)
                /\ \A id \in UserIds :
                      /\ users'[id] = [users[id] EXCEPT
                                          !.display_name = users'[id].display_name]
                      /\ (id # resp'.user \/ resp'.status # 200 \/ dn = Absent)
                            => users'[id] = users[id]
                /\ (resp'.status = 200 /\ dn # Absent)
                      => users'[resp'.user].display_name = Strip(dn) ]_vars

\* of two accounts, the one that had logged in renamed itself; the other row
\* has the name it registered with
C30_Witness ==
    /\ resp.op = "update_profile"
    /\ resp.status = 200
    /\ Len(users) = 2
    /\ users[resp.user].display_name = "Zed"
    /\ users[resp.user].last_login # Null
    /\ \E o \in UserIds \ {resp.user} : users[o].display_name = "Ann"

\* C31 (as claimed): a token issued with a lifetime of the caller's expires
\* that lifetime after the time of issue, a lifetime of zero included, and a
\* token issued without one expires the configured lifetime of its type after
\* the time of issue.
C31_ExpIsIssueTimePlusTtl ==
    resp.op = "issue"
       => resp.token.claims.exp =
             resp.at + (IF resp.delta = NoDelta
                        THEN TtlOf(resp.type)
                        ELSE resp.delta[1])

\* the credential is signed with the server's key, has not expired, and its
\* type claim is missing or is neither access nor refresh
UntypedButValid(cred) ==
    /\ cred.kind = "jwt"
    /\ cred.key = SECRET_KEY
    /\ cred.claims.exp >= now
    /\ cred.claims.type \notin {"access", "refresh"}

\* C32: a request to a protected operation or to refresh that presents a
\* validly signed, unexpired token whose type claim is missing or is neither
\* access nor refresh is answered 401 with the wrong-token-type detail; it
\* names no user and returns no tokens.
C32_UntypedTokenRejected ==
    (resp.op \in ProtectedOps \cup {"refresh"} /\ UntypedButValid(resp.cred))
       => /\ resp.status = 401
          /\ resp.exc = "HTTPException"
          /\ resp.detail = IF resp.op = "refresh"
                           THEN "invalid token type - expected refresh token"
                           ELSE "Invalid token type"
          /\ resp.user = NoUser
          /\ NoTokensReturned

\* refresh was refused a validly signed, unexpired token without a type claim
\* whose subject is an active account
C32_Witness ==
    /\ resp.op = "refresh"
    /\ UntypedButValid(resp.cred)
    /\ resp.cred.claims.type = Absent
    /\ resp.status = 401
    /\ IntOf(resp.cred.claims.sub) \in UserIds
    /\ users[IntOf(resp.cred.claims.sub)].is_active

\* the calls are the first calls of the handler, each made once, in order
OncePrefix(calls, op) ==
    /\ Len(calls) <= Len(StoreCalls(op))
    /\ calls = SubSeq(StoreCalls(op), 1, Len(calls))

\* C33: when a store call of register, login or refresh raises an exception
\* that is no PiglistException, the request is answered 500 with the fixed
\* text "Internal server error", which is not the text of the exception, and
\* with no tokens; the exception keeps its kind (it is not made a typed
\* failure); and in every request, failed or not, each store call of the
\* handler was made at most once, none after the one that failed.
C33_UnexpectedFailure ==
    /\ resp.exc \in StoreFailures
          => /\ resp.op \in IssuingOps
             /\ resp.status = 500
             /\ resp.detail = "Internal server error"
             /\ \A kind \in StoreFailures : resp.detail # FailureText(kind)
             /\ resp.exc \notin PiglistExceptions
             /\ NoTokensReturned
             /\ OncePrefix(used, resp.op)
    /\ reg[1].pc = "running" => OncePrefix(reg[1].calls, reg[1].op)
    /\ (resp.op \in IssuingOps /\ resp.exc = "") => used = StoreCalls(resp.op)

\* register's user store calls returned, its session store call raised, and
\* the request was answered 500 after four store calls
C33_Witness ==
    /\ resp.op = "register"
    /\ resp.exc = "ConnectionError"
    /\ resp.status = 500
    /\ used = StoreCalls("register")

C35_FailureChangesNothing ==
    [][ (resp'.op \in {"login", "refresh"} \cup ProtectedOps
            /\ resp'.status \in {401, 403})
           => /\ UNCHANGED <<users, sessions, issued>>
              /\ NoTokensReturned' ]_vars

\* a login with a wrong password was refused for an account that had logged
\* in before and holds a session
C35_Witness ==
    /\ resp.op = "login"
    /\ resp.status = 401
    /\ \E id \in UserIds :
          /\ users[id].email = resp.email
          /\ users[id].last_login # Null
          /\ \E s \in DOMAIN sessions : sessions[s].value = StrOf(id)

\* C36: a register or login whose session write failed is answered 500
\* "Internal server error" without tokens, and the write to the users table
\* made before it is there: after register the row with the e-mail exists,
\* holds no session and no token, and a register of the same e-mail is now
\* refused by the pre-check and by the unique constraint; after login the
\* account's last_login is the time of the request.
C36_NotAtomicAcrossStores ==
    (resp.op \in {"register", "login"} /\ resp.exc = "RedisError")
       => /\ resp.status = 500
          /\ resp.detail = "Internal server error"
          /\ NoTokensReturned
          /\ \E id \in UserIds :
                /\ users[id].email = resp.email
                /\ resp.op = "register"
                      => /\ id = Len(users)
                         /\ \A s \in DOMAIN sessions : sessions[s].value # StrOf(id)
                         /\ \A t \in issued : t.claims.sub # StrOf(id)
                         /\ ~create_user_check(resp.email)
                         /\ ~unique_email_ok(resp.email)
                /\ resp.op = "login" => users[id].last_login = now

\* a login made some time after the registration failed at the session write:
\* 500, and last_login is the time of that login
C36_Witness ==
    /\ resp.op = "login"
    /\ resp.exc = "RedisError"
    /\ resp.status = 500
    /\ now > 0
    /\ \E id \in UserIds :
          users[id].email = resp.email /\ users[id].last_login = now

\* C37: every token pair returned names, in the sub of both tokens, the user
\* the request authenticated: for register the row the request added, with
\* the e-mail of the request; for login the account with the e-mail of the
\* request, whose password hash verifies the password of the request; for
\* refresh the subject of the refresh token presented.  Every token handed
\* out names an account that exists.
C37_TokenSubjectIsAuthenticatedUser ==
    /\ resp.access_token # NoToken
          => /\ resp.user \in UserIds
             /\ resp.access_token.claims.sub = StrOf(resp.user)
             /\ resp.refresh_token.claims.sub = StrOf(resp.user)
             /\ resp.access_token.claims.email = users[resp.user].email
             /\ resp.op \in {"register", "login"}
                   => /\ users[resp.user].email = resp.email
                      /\ verify_password(resp.password, users[resp.user].password_hash)
             /\ resp.op = "register" => resp.user = Len(users)
             /\ resp.op = "refresh"
                   => /\ resp.cred \in issued
                      /\ resp.cred.claims.type = "refresh"
                      /\ resp.cred.claims.sub = StrOf(resp.user)
    /\ \A t \in issued : t.claims.sub # AbsentSub /\ IntOf(t.claims.sub) \in UserIds

\* of two accounts the second logged in and got a pair naming the second
C37_Witness ==
    /\ resp.op = "login"
    /\ resp.status = 200
    /\ Len(users) = 2
    /\ resp.user = 2
    /\ resp.access_token.claims.sub = StrOf(2)
    /\ \E t \in issued : t.claims.sub = StrOf(1)

\* C38: a refresh answered 200 leaves the users table (last_login included)
\* and the session store as they were; what it yields is the token pair of the
\* response, an access and a refresh token.
C38_RefreshFrame ==
    [][ (resp'.op = "refresh" /\ resp'.status = 200)
           => /\ UNCHANGED <<users, sessions, loggedout>>
              /\ resp'.access_token.claims.type = "access"
              /\ resp'.refresh_token.claims.type = "refresh"
              /\ issued' = issued \cup {resp'.access_token, resp'.refresh_token} ]_vars

\* a refresh succeeded some time after the user's login; last_login is still
\* the time of the login and the sessions are those written before
C38_Witness ==
    /\ resp.op = "refresh"
    /\ resp.status = 200
    /\ users[resp.user].last_login # Null
    /\ users[resp.user].last_login < now
    /\ \A s \in DOMAIN sessions : sessions[s].expires < now + SESSION_EXPIRE_SECONDS

\* C39: a login for an inactive account with a password that does not verify
\* is answered 401 "Invalid email or password", as for an unknown e-mail; the
\* answer "User account is inactive" is given only when the e-mail is that of
\* an inactive account and the password verifies against its hash.
C39_InactiveOnlyAfterPassword ==
    resp.op = "login"
       => /\ \A id \in UserIds :
                (users[id].email = resp.email /\ ~users[id].is_active
                    /\ ~verify_password(resp.password, users[id].password_hash))
                   => (resp.status = 401 /\ resp.detail = "Invalid email or password")
          /\ resp.detail = "User account is inactive"
                => \E id \in UserIds :
                      /\ users[id].email = resp.email
                      /\ ~users[id].is_active
                      /\ verify_password(resp.password, users[id].password_hash)

\* a login with a wrong password for a deactivated account got the
\* invalid-credentials answer
C39_Witness ==
    /\ resp.op = "login"
    /\ resp.status = 401
    /\ resp.detail = "Invalid email or password"
    /\ \E id \in UserIds :
          /\ users[id].email = resp.email
          /\ ~users[id].is_active
          /\ ~verify_password(resp.password, users[id].password_hash)

\* C40: a login answered 200 or a register answered 201 takes nothing away:
\* every session of the store is still there with its value and its expiry,
\* every token handed out before is still handed out, and every token that
\* get_current_user or refresh accepted before the step is accepted after it.
C40_LoginInvalidatesNothing ==
    [][ (resp'.op \in {"login", "register"} /\ resp'.status \in {200, 201})
           => /\ \A s \in DOMAIN sessions :
                    s \in DOMAIN sessions' /\ sessions'[s] = sessions[s]
              /\ Cardinality(DOMAIN sessions') = Cardinality(DOMAIN sessions) + 1
              /\ issued \subseteq issued'
              /\ \A c \in issued :
                    /\ get_current_user(c).ok => get_current_user(c)'.ok
                    /\ refresh_token_checks(c).ok => refresh_token_checks(c)'.ok ]_vars

\* after a later login the user holds two sessions, and two access tokens
\* that are both accepted
C40_Witness ==
    /\ resp.op = "login"
    /\ resp.status = 200
    /\ Cardinality({s \in DOMAIN sessions : sessions[s].value = StrOf(resp.user)}) >= 2
    /\ \E c \in issued :
          /\ c.claims.type = "access"
          /\ c # resp.access_token
          /\ get_current_user(c).ok
          /\ get_current_user(c).user = resp.user

====
